---- MODULE Spec2Model ----
(***************************************************************************)
(* Content tracker, publisher and download bookkeeping of                  *)
(* EnhancedInstagramAutomation (src/enhanced_automation.py).               *)
(*                                                                         *)
(* Strings that the code searches with `in` (media ids, file names,        *)
(* posted paths) are sequences of tokens; every decimal digit is a token   *)
(* of its own, so that `media_pk_str in name` is a real substring test.    *)
(***************************************************************************)
EXTENDS Integers, Sequences, FiniteSets, TLC

\* ------------------------------------------------------------------ bounds
\* the clock (datetime.now()) runs over 1..MaxClock
MaxClock == 2
\* at most MaxPosted records are appended to posted_content in one behaviour
MaxPosted == 2
\* at most MaxFiles entries in downloads/videos
MaxFiles == 3
\* hashtags searched in one fetch, of the 5 the program samples
MaxHashtags == 2
\* number of pairwise distinct ids tracked by the ledger-bound specification
MaxDistinct == 1003
\* the clock value of a process that looks back on more than a week of posts
LongAfter == 11

\* the attempt numbers given to enhanced_rate_limit_handler
MaxAttempt == 3

\* -------------------------------------------------------- program constants
\* track_downloaded_video keeps only the last 1000 video ids
LedgerCap == 1000

\* ------------------------------------------------------------------ strings
DigitChar == <<"0", "1", "2", "3", "4", "5", "6", "7", "8", "9">>

RECURSIVE Str(_)
\* str(n) of a non-negative integer: its decimal digits
Str(n) == IF n < 10 THEN <<DigitChar[n + 1]>>
          ELSE Str(n \div 10) \o <<DigitChar[(n % 10) + 1]>>

\* the value of a decimal digit, -1 for any other token
DigitValue(c) ==
    IF \E i \in 1..10 : DigitChar[i] = c
    THEN (CHOOSE i \in 1..10 : DigitChar[i] = c) - 1
    ELSE -1

RECURSIVE Num(_)
\* the number a sequence of decimal digits stands for
Num(s) == IF Len(s) = 0 THEN 0
          ELSE 10 * Num(SubSeq(s, 1, Len(s) - 1)) + DigitValue(s[Len(s)])

\* datetime.isoformat() of the clock value t
isoformat(t) == Str(t)
\* datetime.fromisoformat: the clock value, or a ValueError for a string
\* that is not a timestamp
fromisoformat(s) ==
    IF Len(s) > 0 /\ \A i \in 1..Len(s) : DigitValue(s[i]) >= 0
    THEN [ok |-> TRUE, t |-> Num(s)]
    ELSE [ok |-> FALSE, t |-> 0]

\* Python `sub in s` on strings
Contains(s, sub) ==
    \E i \in 0..(Len(s) - Len(sub)) : SubSeq(s, i + 1, i + Len(sub)) = sub

\* Python `x in list`
InList(x, list) == \E i \in 1..Len(list) : list[i] = x

Count(x, list) == Cardinality({i \in 1..Len(list) : list[i] = x})

NoDup(list) == \A i, j \in 1..Len(list) : list[i] = list[j] => i = j

\* ------------------------------------------------------------- file names
Mp4Ext == <<".mp", "4">>
JsonExt == <<".json">>
JpgExt == <<".jpg">>

\* number of trailing tokens that form the suffix of a name
SuffixLen(name) ==
    IF Len(name) >= 2 /\ SubSeq(name, Len(name) - 1, Len(name)) = Mp4Ext THEN 2
    ELSE 1

\* pathlib: Path.suffix and Path.stem
Suffix(name) == SubSeq(name, Len(name) - SuffixLen(name) + 1, Len(name))
Stem(name) == SubSeq(name, 1, Len(name) - SuffixLen(name))
\* pathlib: Path.with_suffix
WithSuffix(name, ext) == Stem(name) \o ext

\* f"viral_reel_{media.pk}_{timestamp}.mp4"
FinalName(pk, t) == <<"viral_reel_">> \o Str(pk) \o <<"_">> \o Str(t) \o Mp4Ext
\* the file client.video_download leaves in downloads/videos
TmpName(pk) == <<"dl_">> \o Str(pk) \o Mp4Ext

DownloadsDir == <<"downloads/videos/">>
DownloadPath(name) == DownloadsDir \o name
\* a path below downloads/videos, made relative to it
BaseName(path) == SubSeq(path, 2, Len(path))
InDownloads(path) == SubSeq(path, 1, 1) = DownloadsDir

\* the media the platform offers: a pk, and a pk whose digits contain it
MediaPks == {1, 12}
\* what scan_user_content finds: an image, and a video whose name has a digit
UserFiles == { <<"user_content/", "cat", ".jpg">>,
               <<"user_content/", "clip", "1", ".mov">> }
Captions == {"ai", "fallback"}

VideoExts == {<<".mp", "4">>, <<".mov">>, <<".avi">>, <<".mkv">>, <<".webm">>}
ImageExts == {<<".jpg">>, <<".jpeg">>, <<".png">>, <<".gif">>}

\* ------------------------------------------------------------------- state
VARIABLES
    downloaded_content,   \* self.downloaded_content
    disk_downloaded,      \* downloaded_content.json
    posted_content,       \* self.posted_content
    disk_posted,          \* posted_content.json
    files,                \* names of the files in downloads/videos
    session,              \* self.client.user_id is set
    testing_mode,         \* self.testing_mode
    now,                  \* datetime.now()
    last,                 \* the call that was made last and what it did
    fetch,                \* the call of fetch_viral_cat_reels_optimized under way
    routine               \* the call of enhanced_posting_routine under way

vars == <<downloaded_content, disk_downloaded, posted_content, disk_posted,
          files, session, testing_mode, now, last, fetch, routine>>

\* no call of fetch_viral_cat_reels_optimized under way; otherwise: where
\* the call is, max_downloads, downloaded_videos and the media pks they
\* came from, the hashtags still to search, the media of the hashtag
\* searched and the next of them to look at, the candidates and the next
\* of them to download, and whether the time budget is spent
NoFetch == [pc |-> "idle", max |-> 0, got |-> <<>>, pks |-> <<>>, tags |-> 0,
            medias |-> <<>>, i |-> 0, cands |-> <<>>, j |-> 0, late |-> FALSE]

\* no call of enhanced_posting_routine under way; otherwise: where the call
\* is, content_posted and target_posts, the number of user files found,
\* existing_videos, the number of fetches that came back empty, the files
\* still to post in the tier at hand, the video posted and not cleaned up
\* yet and whether its post succeeded, and what the run did so far: the
\* max_downloads and the content_posted of every fetch it began, every file
\* handed to post_content with its tier and the result, and every video
\* handed to cleanup_posted_viral_reel, and the seconds
\* fetch_viral_cat_reels_with_retry slept after a fetch that brought
\* nothing, and the records another process saved while the call ran
NoRoutine == [pc |-> "idle", content_posted |-> 0, target_posts |-> 0,
              scanned |-> 0, existing_videos |-> <<>>, retry_attempt |-> 0,
              todo |-> <<>>, pending |-> <<>>, ok |-> FALSE, fetched |-> <<>>,
              handed |-> <<>>, cleaned |-> <<>>, waits |-> <<>>, peer |-> <<>>,
              downloaded |-> <<>>]

\* last_cleanup: None is the empty string here
EmptyDownloaded == [video_ids |-> <<>>, last_cleanup |-> <<>>]
EmptyPosted == [images |-> <<>>, videos |-> <<>>]

\* a JSON document on disk: readable with its content, or left unreadable by
\* a write that failed half way
OnDisk(doc) == [readable |-> TRUE, doc |-> doc, exists |-> TRUE]
CorruptDownloaded == [readable |-> FALSE, doc |-> EmptyDownloaded, exists |-> TRUE]
CorruptPosted == [readable |-> FALSE, doc |-> EmptyPosted, exists |-> TRUE]
\* no file at all, and a file that holds the text of doc cut short, which
\* json.load does not parse
Missing(doc) == [readable |-> FALSE, doc |-> doc, exists |-> FALSE]
Garbled(doc) == [readable |-> FALSE, doc |-> doc, exists |-> TRUE]

\* the observation of a call: which operation, on which media pk or path,
\* what it returned, whether it raised, the layer of the duplicate check
\* that matched, the branch it took, the client calls it made, the kind of
\* I/O error that happened in it ("ok" for none), whether it repeats the
\* call before it, the list it was given and the list it returned, and the
\* number of attempts it made
NoCall == [op |-> "none", pk |-> 0, file |-> <<>>, ret |-> "None",
           raised |-> FALSE, layer |-> 0, branch |-> "", calls |-> <<>>,
           fault |-> "ok", again |-> FALSE, arg |-> <<>>, out |-> <<>>, n |-> 0]

\* the kind of an I/O error: in a directory listing or in a save
FaultKind(fault) ==
    CASE fault = "ok" -> "ok"
      [] fault \in {"open_fails", "write_fails"} -> "save"
      [] OTHER -> "scan"

\* --------------------------------------------------------------- persistence
\* load_downloaded_content: the document of a file that exists and parses
load_downloaded_content(disk) ==
    IF disk.exists /\ disk.readable THEN disk.doc ELSE EmptyDownloaded
\* a load that returns what it could read of the file
load_posted_unparsed(disk) == IF disk.exists THEN disk.doc ELSE EmptyPosted

\* load_posted_content: the document of a file that exists and parses
load_posted_content(disk) ==
    IF disk.exists /\ disk.readable THEN disk.doc ELSE EmptyPosted

\* outcome of open(file, 'w') followed by json.dump
IoOutcomes == {"ok", "open_fails", "write_fails"}

\* save_downloaded_content: the document on disk afterwards
save_downloaded_content(disk, doc, io) ==
    CASE io = "ok" -> OnDisk(doc)
      [] io = "open_fails" -> disk
      [] OTHER -> CorruptDownloaded

\* a save that keeps the records on disk that the process does not hold
save_posted_merging(disk, doc, io) ==
    LET kept(key) == doc[key] \o SelectSeq(load_posted_content(disk)[key],
                                           LAMBDA r : ~InList(r, doc[key]))
    IN CASE io = "ok" -> OnDisk([images |-> kept("images"), videos |-> kept("videos")])
         [] io = "open_fails" -> disk
         [] OTHER -> CorruptPosted

\* save_posted_content: the document on disk afterwards
save_posted_content(disk, doc, io) ==
    CASE io = "ok" -> OnDisk(doc)
      [] io = "open_fails" -> disk
      [] OTHER -> CorruptPosted


\* ------------------------------------------------------------------ tracker
\* the id compared with the newest entry of the ledger only
IsTrackedNewestOnly(dc, s) ==
    Len(dc.video_ids) > 0 /\ dc.video_ids[Len(dc.video_ids)] = s

\* the id looked up before its conversion to a string: never found
IsTrackedUnconverted(dc, s) == FALSE

\* `str(video_id) in self.downloaded_content['video_ids']`
IsTracked(dc, s) == InList(s, dc.video_ids)

\* video_ids[:1000], the oldest ids kept
TruncateKeepsOldest(ids) ==
    IF Len(ids) > LedgerCap THEN SubSeq(ids, 1, LedgerCap) ELSE ids

\* video_ids[-1000:] once the list is longer than 1000
Truncate(ids) ==
    IF Len(ids) > LedgerCap THEN SubSeq(ids, Len(ids) - LedgerCap + 1, Len(ids))
    ELSE ids

\* track_downloaded_video without the membership test
track_always_appends(dc, disk, pk, io) ==
    LET dc2 == [dc EXCEPT !.video_ids = Truncate(Append(dc.video_ids, Str(pk)))]
    IN [dc |-> dc2, disk |-> save_downloaded_content(disk, dc2, io),
        raised |-> io # "ok", branch |-> "tracked"]

\* track_downloaded_video: the ledger, the document on disk, whether the
\* save raised, and the branch taken
track_downloaded_video(dc, disk, pk, io) ==
    IF ~IsTracked(dc, Str(pk))
    THEN LET dc2 == [dc EXCEPT !.video_ids = Truncate(Append(dc.video_ids, Str(pk)))]
         IN [dc |-> dc2, disk |-> save_downloaded_content(disk, dc2, io),
             raised |-> io # "ok", branch |-> "tracked"]
    ELSE [dc |-> dc, disk |-> disk, raised |-> FALSE, branch |-> "already"]

\* what can go wrong while is_video_already_downloaded runs: a directory
\* listing raises, or the save of a back-fill raises
DupFaults == {"ok", "glob_mp4", "glob_json", "iterdir", "open_fails", "write_fails"}

\* the first layer of is_video_already_downloaded that matches, 0 for none
Layer2(fs, s) == \E f \in fs : Suffix(f) = Mp4Ext /\ Contains(f, s)
Layer3(fs, s) == \E f \in fs : Suffix(f) = JsonExt /\ Contains(f, s)
Layer4(pc, s) == \E i \in 1..Len(pc.videos) : Contains(pc.videos[i].file, s)
\* the broad scan with the `in` test dropped
Layer5AnyFile(fs, s) == fs # {}
Layer5(fs, s) == \E f \in fs : Contains(Stem(f), s)

\* the back-fill left out: True is returned and nothing is tracked
BackFillForgetsToTrack(dc, disk, pk, layer, fault) ==
    [ret |-> "True", raised |-> FALSE, layer |-> layer, dc |-> dc,
     disk |-> disk, fault |-> "ok"]

\* the back-fill outside the try block: a raising save leaves the function
BackFillOutsideTry(dc, disk, pk, layer, fault) ==
    LET io == IF fault \in {"open_fails", "write_fails"} THEN fault ELSE "ok"
        r == track_downloaded_video(dc, disk, pk, io)
    IN [ret |-> IF r.raised THEN "None" ELSE "True", raised |-> r.raised,
        layer |-> layer, dc |-> r.dc, disk |-> r.disk,
        fault |-> IF r.raised THEN fault ELSE "ok"]

\* the back-fill of a layer that matched: track_downloaded_video inside the
\* try block, a raising save is caught and turned into False
BackFill(dc, disk, pk, layer, fault) ==
    LET io == IF fault \in {"open_fails", "write_fails"} THEN fault ELSE "ok"
        r == track_downloaded_video(dc, disk, pk, io)
    IN [ret |-> IF r.raised THEN "False" ELSE "True", raised |-> FALSE,
        layer |-> layer, dc |-> r.dc, disk |-> r.disk,
        fault |-> IF r.raised THEN fault ELSE "ok"]

\* is_video_already_downloaded: result, matching layer, ledger and document
\* afterwards, and the fault that actually happened
is_video_already_downloaded(dc, disk, pc, fs, pk, fault) ==
    LET s == Str(pk)
        same(ret, layer, f) == [ret |-> ret, raised |-> FALSE, layer |-> layer,
                                dc |-> dc, disk |-> disk, fault |-> f]
    IN CASE IsTracked(dc, s) -> same("True", 1, "ok")
         [] ~IsTracked(dc, s) /\ fault = "glob_mp4" -> same("False", 0, fault)
         [] ~IsTracked(dc, s) /\ fault # "glob_mp4" /\ Layer2(fs, s) ->
                BackFill(dc, disk, pk, 2, fault)
         [] OTHER ->
            CASE fault = "glob_json" -> same("False", 0, fault)
              [] fault # "glob_json" /\ Layer3(fs, s) -> BackFill(dc, disk, pk, 3, fault)
              [] fault # "glob_json" /\ ~Layer3(fs, s) /\ Layer4(pc, s) ->
                     BackFill(dc, disk, pk, 4, fault)
              [] OTHER ->
                 CASE fault = "iterdir" -> same("False", 0, fault)
                   [] fault # "iterdir" /\ Layer5(fs, s) -> BackFill(dc, disk, pk, 5, fault)
                   [] OTHER -> same("False", 0, "ok")

\* ----------------------------------------------------------------- download
\* download_instagram_video makes at most 3 attempts
MaxDownloadAttempts == 3
\* 50 * 1024, the least size of a video, and 100 * 1024 * 1024, the size
\* above which a warning is logged
MinSize == 51200
MaxSize == 104857600
\* the bytes read for the header, and for the second look at the signature
HeaderLen == 12
ChunkLen == 1024

\* the file client.video_download reports: whether it exists, the size
\* stat() gives, the length that can be read, and the offset of the first
\* 'ftyp' or 'moov' in it (-1 for none)
Fetched(exists, size, actual, sig) ==
    [exists |-> exists, size |-> size, actual |-> actual, sig |-> sig]

\* the validation without the comparison of the two sizes
validate_skips_size_comparison(f) ==
    /\ f.exists
    /\ f.size >= MinSize
    /\ f.actual >= HeaderLen
    /\ f.sig >= 0
    /\ f.sig + 4 <= HeaderLen \/ f.sig + 4 <= ChunkLen

\* the validation of a fetched file: it exists, is not smaller than 50 KB,
\* its header has 12 bytes, a signature lies in the header or in the first
\* 1024 bytes, and the length read equals the size reported
validate(f) ==
    /\ f.exists
    /\ f.size >= MinSize
    /\ f.actual >= HeaderLen
    /\ f.sig >= 0
    /\ f.sig + 4 <= HeaderLen \/ f.sig + 4 <= ChunkLen
    /\ f.actual = f.size

\* how one attempt goes: client.video_download returns or raises (leaving a
\* partial file or none), the file it reports, the rename to the final name
\* (works, raises, or leaves a file of another size), and whether the
\* unlink calls of the clean-up after a failed attempt work
Attempt(dl, file, rename, del) ==
    [dl |-> dl, file |-> file, rename |-> rename, del |-> del]

\* the clean-up after a failed attempt with the fetched file left out of it
cleanup_partial_keeps_fetched(fs, pk, t0, fetched, del) ==
    IF del THEN fs \ {FinalName(pk, t0)} ELSE fs

\* the clean-up after a failed attempt: the target path and, when the
\* download had returned, the fetched file are unlinked if they exist; an
\* unlink that raises is logged
cleanup_partial(fs, pk, t0, fetched, del) ==
    IF del THEN fs \ ({FinalName(pk, t0)} \cup (IF fetched THEN {TmpName(pk)} ELSE {}))
    ELSE fs

\* one pass of the attempt loop: whether it ended the loop with the video
\* under its final name, and the directory afterwards
one_attempt(fs, pk, t0, a) ==
    LET tmp == TmpName(pk)
        final == FinalName(pk, t0)
        got == IF a.file.exists THEN fs \cup {tmp} ELSE fs \ {tmp}
    IN CASE a.dl = "raises" ->
              [ok |-> FALSE, fs |-> cleanup_partial(fs, pk, t0, FALSE, a.del)]
         [] a.dl = "raises_partial" ->
              [ok |-> FALSE,
               fs |-> cleanup_partial(fs \cup {tmp}, pk, t0, FALSE, a.del)]
         [] a.dl = "returns" /\ ~validate(a.file) ->
              [ok |-> FALSE, fs |-> cleanup_partial(got, pk, t0, TRUE, a.del)]
         [] a.dl = "returns" /\ validate(a.file) /\ a.rename = "raises" ->
              [ok |-> FALSE, fs |-> cleanup_partial(got, pk, t0, TRUE, a.del)]
         [] a.dl = "returns" /\ validate(a.file) /\ a.rename = "corrupt" ->
              [ok |-> FALSE,
               fs |-> cleanup_partial((got \ {tmp}) \cup {final}, pk, t0, TRUE, a.del)]
         [] OTHER -> [ok |-> TRUE, fs |-> (got \ {tmp}) \cup {final}]

RECURSIVE Pow2(_)
Pow2(n) == IF n = 0 THEN 1 ELSE 2 * Pow2(n - 1)

\* the delay before the attempt after attempt k: min(5 * 2 ** (k - 1), 30)
retry_delay(k) == IF 5 * Pow2(k - 1) < 30 THEN 5 * Pow2(k - 1) ELSE 30

RECURSIVE attempt_loop(_, _, _, _, _)
\* the attempt loop from attempt k on: whether an attempt succeeded, the
\* directory afterwards, the number of attempts made and the delays slept
attempt_loop(fs, pk, t0, attempts, k) ==
    LET r == one_attempt(fs, pk, t0, attempts[k])
    IN CASE r.ok -> [ok |-> TRUE, fs |-> r.fs, n |-> k, sleeps |-> <<>>]
         [] ~r.ok /\ k = MaxDownloadAttempts ->
                [ok |-> FALSE, fs |-> r.fs, n |-> k, sleeps |-> <<>>]
         [] OTHER ->
                LET rest == attempt_loop(r.fs, pk, t0, attempts, k + 1)
                IN [rest EXCEPT !.sleeps = <<retry_delay(k)>> \o @]

\* what follows the attempt loop: the sidecar is written and the id tracked
AfterKinds == {"ok", "sidecar_fails", "track_fails"}
\* the unlink calls of the final cleanup: all succeed, the one of the video
\* raises, or the one of the sidecar raises
UnlinkOutcomes == {"ok", "mp4_fails", "json_fails"}

\* the cleanup of the except block at the end of download_instagram_video,
\* with the file name recomputed from the clock at that moment
FinalCleanup(fs, pk, t1, unl) ==
    LET target == FinalName(pk, t1)
        sidecar == WithSuffix(target, JsonExt)
    IN CASE unl = "mp4_fails" /\ target \in fs -> fs
         [] unl = "json_fails" /\ sidecar \in fs -> fs \ {target}
         [] OTHER -> fs \ {target, sidecar}

\* download_instagram_video: returned path (<<>> for None), ledger, document
\* and directory afterwards, the number of attempts made, how it ended, and
\* the delays slept between the attempts
download_instagram_video(dc, disk, fs, pk, t0, t1, attempts, after, unl, io) ==
    LET final == FinalName(pk, t0)
        sidecar == WithSuffix(final, JsonExt)
        loop == attempt_loop(fs, pk, t0, attempts, 1)
        tr == track_downloaded_video(dc, disk, pk, io)
    IN CASE ~loop.ok ->
              [path |-> <<>>, dc |-> dc, disk |-> disk,
               fs |-> FinalCleanup(loop.fs, pk, t1, unl), n |-> loop.n,
               kind |-> "exhausted", sleeps |-> loop.sleeps]
         [] loop.ok /\ after = "sidecar_fails" ->
              [path |-> <<>>, dc |-> dc, disk |-> disk,
               fs |-> FinalCleanup(IF io = "write_fails" THEN loop.fs \cup {sidecar}
                                   ELSE loop.fs, pk, t1, unl),
               n |-> loop.n, kind |-> after, sleeps |-> loop.sleeps]
         [] loop.ok /\ after = "track_fails" /\ tr.raised ->
              [path |-> <<>>, dc |-> tr.dc, disk |-> tr.disk,
               fs |-> FinalCleanup(loop.fs \cup {sidecar}, pk, t1, unl),
               n |-> loop.n, kind |-> after, sleeps |-> loop.sleeps]
         [] OTHER ->
              [path |-> DownloadPath(final), dc |-> tr.dc, disk |-> tr.disk,
               fs |-> loop.fs \cup {sidecar}, n |-> loop.n, kind |-> "ok",
               sleeps |-> loop.sleeps]

\* ------------------------------------------------------------------ fetcher
\* a media of the platform; a count of -1 stands for None
Media(pk, media_type, like_count, comment_count) ==
    [pk |-> pk, media_type |-> media_type, like_count |-> like_count,
     comment_count |-> comment_count]

\* `count or 0`
OrZero(count) == IF count < 1 THEN 0 ELSE count

\* a video with like_count >= 1000 or comment_count >= 20
is_candidate(m) ==
    /\ m.media_type = 2
    /\ OrZero(m.like_count) >= 1000 \/ OrZero(m.comment_count) >= 20

\* the entry of video_candidates for a media
Candidate(m) ==
    [media |-> m, score |-> OrZero(m.like_count) + OrZero(m.comment_count) * 10]

\* c put behind the entries of a sorted list that score at least as high
InsertByScore(c, sorted) ==
    LET n == Cardinality({k \in 1..Len(sorted) : sorted[k].score >= c.score})
    IN SubSeq(sorted, 1, n) \o <<c>> \o SubSeq(sorted, n + 1, Len(sorted))

\* the candidates left in the order of the search
sort_keeps_order(cands) == cands

RECURSIVE sort_by_score(_)
\* video_candidates.sort(key=score, reverse=True): descending and stable
sort_by_score(cands) ==
    IF cands = <<>> THEN <<>>
    ELSE InsertByScore(cands[Len(cands)],
                       sort_by_score(SubSeq(cands, 1, Len(cands) - 1)))

\* the limit that is never found reached
limit_never_reached(got, max) == FALSE

\* len(downloaded_videos) >= max_downloads
limit_reached(got, max) == Len(got) >= max

\* the candidate downloaded without the second look at the duplicates
second_check_skipped(dc, disk, pc, fs, pk, fault) ==
    [ret |-> "False", raised |-> FALSE, layer |-> 0, dc |-> dc, disk |-> disk,
     fault |-> fault]

\* the duplicate check right before the download of a candidate
second_check(dc, disk, pc, fs, pk, fault) ==
    is_video_already_downloaded(dc, disk, pc, fs, pk, fault)

\* the end of the work on a hashtag: the fetch is over when the limit is
\* reached, the next hashtag follows otherwise
after_hashtag(f) ==
    IF limit_reached(f.got, f.max)
    THEN [f EXCEPT !.pc = "done"]
    ELSE [f EXCEPT !.pc = "hashtag", !.tags = @ - 1, !.medias = <<>>, !.i = 0,
                   !.cands = <<>>, !.j = 0]

\* ---------------------------------------------------------------- publisher
\* one call on the platform client and whether it succeeded
Call(name, ok) == [call |-> name, ok |-> ok]

\* login_instagram answering True also when client.login raised
login_always_true(loginOk) == TRUE

\* login_instagram: True when client.login returns, False when it raises
login_instagram(loginOk) == loginOk

\* the thumbnail a video upload may leave beside a downloaded video
ThumbKinds == {"none", "stem", "name"}
Thumbnail(path, thumb) ==
    CASE thumb = "stem" /\ InDownloads(path) -> {WithSuffix(BaseName(path), JpgExt)}
      [] thumb = "name" /\ InDownloads(path) -> {BaseName(path) \o JpgExt}
      [] OTHER -> {}

\* how the client calls of one post_content go: the login (when one is
\* needed), the uploads, whether the reel upload overran the 120 s upload
\* timeout, the thumbnail, and the save of the record; the choices that
\* cannot make a difference for this call are left out
PostRuns(testing, sess, path) ==
    LET run(l, c, sl, v, ph, th, io) ==
            [loginOk |-> l, clipOk |-> c, slow |-> sl, videoOk |-> v,
             photoOk |-> ph, thumb |-> th, io |-> io]
        thumbs == IF InDownloads(path) THEN ThumbKinds ELSE {"none"}
        uploads ==
            IF Suffix(path) \in VideoExts
            THEN {run(TRUE, TRUE, FALSE, TRUE, TRUE, th, io) :
                      th \in thumbs, io \in IoOutcomes}
                 \cup {run(TRUE, FALSE, FALSE, TRUE, TRUE, th, io) :
                      th \in thumbs, io \in IoOutcomes}
                 \cup {run(TRUE, FALSE, sl, FALSE, TRUE, th, "ok") :
                      th \in thumbs, sl \in BOOLEAN}
            ELSE {run(TRUE, TRUE, FALSE, TRUE, TRUE, "none", io) : io \in IoOutcomes}
                 \cup {run(TRUE, TRUE, FALSE, TRUE, FALSE, "none", "ok")}
    IN IF testing THEN {run(TRUE, TRUE, FALSE, TRUE, TRUE, "none", "ok")}
       ELSE uploads \cup (IF sess THEN {}
                          ELSE {run(FALSE, TRUE, FALSE, TRUE, TRUE, "none", "ok")})

\* the record post_content appends
PostedRecord(path, caption, t) ==
    [file |-> path, caption |-> caption, posted_at |-> isoformat(t),
     source |-> "enhanced_automation"]

\* every record filed under 'videos'
content_type_all_videos(path) == "videos"

\* 'images' for an image extension, 'videos' otherwise
content_type(path) == IF Suffix(path) \in ImageExts THEN "images" ELSE "videos"

\* the record put in place of the list instead of appended to it
append_posted_replaces(pc, path, caption, t) ==
    [pc EXCEPT ![content_type(path)] = <<PostedRecord(path, caption, t)>>]

\* self.posted_content[content_type].append(record)
append_posted(pc, path, caption, t) ==
    [pc EXCEPT ![content_type(path)] = Append(@, PostedRecord(path, caption, t))]

\* the upload part of post_content with the generic video upload left out
UploadsWithoutFallback(path, run) ==
    IF Suffix(path) \in VideoExts
    THEN [calls |-> <<Call("clip_upload", run.clipOk)>>, ok |-> run.clipOk,
          timeout |-> ~run.clipOk /\ run.slow]
    ELSE [calls |-> <<Call("photo_upload", run.photoOk)>>, ok |-> run.photoOk,
          timeout |-> FALSE]

\* the upload part of post_content: the client calls made, whether an upload
\* went through, and whether the 120 s upload timeout ended it
Uploads(path, run) ==
    IF Suffix(path) \in VideoExts
    THEN CASE run.clipOk ->
                  [calls |-> <<Call("clip_upload", TRUE)>>, ok |-> TRUE,
                   timeout |-> FALSE]
           [] ~run.clipOk /\ run.slow ->
                  [calls |-> <<Call("clip_upload", FALSE)>>, ok |-> FALSE,
                   timeout |-> TRUE]
           [] OTHER -> [calls |-> <<Call("clip_upload", FALSE),
                                    Call("video_upload", run.videoOk)>>,
                        ok |-> run.videoOk, timeout |-> FALSE]
    ELSE [calls |-> <<Call("photo_upload", run.photoOk)>>, ok |-> run.photoOk,
          timeout |-> FALSE]

\* post_content with the record appended and saved in testing mode too
post_content_records_dry_run(testing, sess, pc, disk, fs, path, caption, t, run) ==
    LET up == Uploads(path, run)
        pc2 == append_posted(pc, path, caption, t)
        made == IF \E i \in 1..Len(up.calls) : up.calls[i].call # "photo_upload"
                THEN Thumbnail(path, run.thumb) ELSE {}
        logins == IF sess THEN <<>> ELSE <<Call("login", run.loginOk)>>
        timeout == IF up.timeout THEN "timeout" ELSE ""
        sess2 == sess \/ run.loginOk
    IN CASE testing ->
              [ret |-> "True", calls |-> <<>>, session |-> sess, pc |-> pc2,
               disk |-> save_posted_content(disk, pc2, run.io), fs |-> fs,
               fault |-> "ok", branch |-> ""]
         [] ~testing /\ ~sess /\ ~login_instagram(run.loginOk) ->
              [ret |-> "False", calls |-> logins, session |-> sess2, pc |-> pc,
               disk |-> disk, fs |-> fs, fault |-> "ok", branch |-> ""]
         [] ~testing /\ (sess \/ login_instagram(run.loginOk)) /\ ~up.ok ->
              [ret |-> "False", calls |-> logins \o up.calls, session |-> sess2,
               pc |-> pc, disk |-> disk, fs |-> fs \cup made, fault |-> "ok",
               branch |-> timeout]
         [] OTHER ->
              [ret |-> IF run.io = "ok" THEN "True" ELSE "False",
               calls |-> logins \o up.calls, session |-> sess2, pc |-> pc2,
               disk |-> save_posted_content(disk, pc2, run.io),
               fs |-> fs \cup made, fault |-> run.io, branch |-> ""]

\* post_content: result, client calls, session, posted content in memory and
\* on disk, and the directory afterwards
post_content(testing, sess, pc, disk, fs, path, caption, t, run) ==
    LET up == Uploads(path, run)
        pc2 == append_posted(pc, path, caption, t)
        made == IF \E i \in 1..Len(up.calls) : up.calls[i].call # "photo_upload"
                THEN Thumbnail(path, run.thumb) ELSE {}
        logins == IF sess THEN <<>> ELSE <<Call("login", run.loginOk)>>
        timeout == IF up.timeout THEN "timeout" ELSE ""
        sess2 == sess \/ run.loginOk
    IN CASE testing ->
              [ret |-> "True", calls |-> <<>>, session |-> sess, pc |-> pc,
               disk |-> disk, fs |-> fs, fault |-> "ok", branch |-> ""]
         [] ~testing /\ ~sess /\ ~login_instagram(run.loginOk) ->
              [ret |-> "False", calls |-> logins, session |-> sess2, pc |-> pc,
               disk |-> disk, fs |-> fs, fault |-> "ok", branch |-> ""]
         [] ~testing /\ (sess \/ login_instagram(run.loginOk)) /\ ~up.ok ->
              [ret |-> "False", calls |-> logins \o up.calls, session |-> sess2,
               pc |-> pc, disk |-> disk, fs |-> fs \cup made, fault |-> "ok",
               branch |-> timeout]
         [] OTHER ->
              [ret |-> IF run.io = "ok" THEN "True" ELSE "False",
               calls |-> logins \o up.calls, session |-> sess2, pc |-> pc2,
               disk |-> save_posted_content(disk, pc2, run.io),
               fs |-> fs \cup made, fault |-> run.io, branch |-> ""]

\* ------------------------------------------------------------- housekeeping
\* filter_unposted_existing_videos looks back 7 days (clock ticks)
RecentDays == 7

\* a posted record counts as recent when its timestamp is later than the
\* cutoff, and also when the timestamp cannot be parsed
IsRecentOnlyIfParsed(rec, t) ==
    LET p == fromisoformat(rec.posted_at) IN p.ok /\ p.t > t - RecentDays

IsRecent(rec, t) ==
    LET p == fromisoformat(rec.posted_at) IN ~p.ok \/ p.t > t - RecentDays

\* the file names of the recently posted videos
recent_posted_files(pc, t) ==
    {BaseName(pc.videos[i].file) :
         i \in {j \in 1..Len(pc.videos) : IsRecent(pc.videos[j], t)}}

filter_keeps_nothing(pc, existing, t) == <<>>

\* filter_unposted_existing_videos: the candidates whose name is not the
\* name of a recently posted video, in the order given
filter_unposted_existing_videos(pc, existing, t) ==
    SelectSeq(existing, LAMBDA v : BaseName(v) \notin recent_posted_files(pc, t))

\* how the unlink calls of safe_delete_file go: the first succeeds; the
\* file is locked once and then free; it stays locked for all three
\* attempts; the deletion is refused for another reason
DeleteOutcomes == {"ok", "locked_once", "locked_always", "denied"}

\* further courses of the unlink calls: locked twice and then free; an
\* OSError that is no PermissionError, once or every time; an exception
\* that is no OSError
MoreDeleteOutcomes == {"locked_twice", "oserror_once", "oserror_always", "other"}

\* safe_delete_file tries max_retries = 3 times
MaxDeleteRetries == 3

\* what the unlink of each attempt does: "ok", or what it raises
Unlinks(out) ==
    CASE out = "ok" -> <<"ok">>
      [] out = "locked_once" -> <<"locked", "ok">>
      [] out = "locked_twice" -> <<"locked", "locked", "ok">>
      [] out = "locked_always" -> <<"locked", "locked", "locked">>
      [] out = "denied" -> <<"denied">>
      [] out = "oserror_once" -> <<"oserror", "ok">>
      [] out = "oserror_always" -> <<"oserror", "oserror", "oserror">>
      [] OTHER -> <<"other">>

\* the seconds slept after a locked attempt (attempt counts from 0)
lock_delay(attempt) == (attempt + 1) * 2

\* the loop of safe_delete_file from the given attempt on: whether the file
\* was deleted, the unlink calls made and the seconds slept
RECURSIVE delete_loop_gives_up_early(_, _)
delete_loop_gives_up_early(unlinks, attempt) ==
    IF attempt >= MaxDeleteRetries - 1
    THEN [ok |-> FALSE, n |-> 0, sleeps |-> <<>>]
    ELSE LET rest == delete_loop_gives_up_early(unlinks, attempt + 1)
             after(sleep) == [ok |-> rest.ok, n |-> rest.n + 1,
                              sleeps |-> sleep \o rest.sleeps]
         IN CASE unlinks[attempt + 1] = "ok" ->
                     [ok |-> TRUE, n |-> 1, sleeps |-> <<>>]
              [] unlinks[attempt + 1] = "locked" -> after(<<lock_delay(attempt)>>)
              [] OTHER -> [ok |-> FALSE, n |-> 1, sleeps |-> <<>>]

RECURSIVE delete_loop(_, _)
delete_loop(unlinks, attempt) ==
    IF attempt >= MaxDeleteRetries
    THEN [ok |-> FALSE, n |-> 0, sleeps |-> <<>>]
    ELSE LET rest == delete_loop(unlinks, attempt + 1)
             after(sleep) == [ok |-> rest.ok, n |-> rest.n + 1,
                              sleeps |-> sleep \o rest.sleeps]
         IN CASE unlinks[attempt + 1] = "ok" ->
                     [ok |-> TRUE, n |-> 1, sleeps |-> <<>>]
              [] unlinks[attempt + 1] = "locked" -> after(<<lock_delay(attempt)>>)
              [] unlinks[attempt + 1] = "oserror" ->
                     IF attempt < MaxDeleteRetries - 1 THEN after(<<2>>)
                     ELSE [ok |-> FALSE, n |-> 1, sleeps |-> <<>>]
              [] OTHER -> [ok |-> FALSE, n |-> 1, sleeps |-> <<>>]

\* safe_delete_file: True for a file that is not there or was deleted
safe_delete_file(fs, name, out) ==
    IF name \notin fs
    THEN [ok |-> TRUE, fs |-> fs, n |-> 0, sleeps |-> <<>>]
    ELSE LET d == delete_loop(Unlinks(out), 0)
         IN [ok |-> d.ok, fs |-> IF d.ok THEN fs \ {name} ELSE fs,
             n |-> d.n, sleeps |-> d.sleeps]

\* cleanup_posted_viral_reel: the video, its sidecar and its thumbnail are
\* deleted in this order; the thumbnail does not count for the result
cleanup_stops_at_first_failure(fs, path, dv, dm, dt) ==
    LET video == BaseName(path)
        a == safe_delete_file(fs, video, dv)
        none == [ok |-> FALSE, n |-> 0, sleeps |-> <<>>]
        b == safe_delete_file(a.fs, WithSuffix(video, JsonExt), dm)
        c == safe_delete_file(b.fs, Stem(video) \o JpgExt, dt)
    IN IF a.ok
       THEN [ret |-> IF b.ok THEN "True" ELSE "False", fs |-> c.fs,
             tries |-> <<[ok |-> a.ok, n |-> a.n, sleeps |-> a.sleeps],
                         [ok |-> b.ok, n |-> b.n, sleeps |-> b.sleeps],
                         [ok |-> c.ok, n |-> c.n, sleeps |-> c.sleeps]>>]
       ELSE [ret |-> "False", fs |-> fs,
             tries |-> <<[ok |-> a.ok, n |-> a.n, sleeps |-> a.sleeps], none, none>>]

cleanup_posted_viral_reel(fs, path, dv, dm, dt) ==
    LET video == BaseName(path)
        a == safe_delete_file(fs, video, dv)
        b == safe_delete_file(a.fs, WithSuffix(video, JsonExt), dm)
        c == safe_delete_file(b.fs, Stem(video) \o JpgExt, dt)
    IN [ret |-> IF a.ok /\ b.ok THEN "True" ELSE "False", fs |-> c.fs,
        tries |-> <<[ok |-> a.ok, n |-> a.n, sleeps |-> a.sleeps],
                    [ok |-> b.ok, n |-> b.n, sleeps |-> b.sleeps],
                    [ok |-> c.ok, n |-> c.n, sleeps |-> c.sleeps]>>]

\* cleanup_old_downloads: of the videos older than the cutoff (old) the
\* sidecar and then the video are unlinked; an unlink that raises (of the
\* sidecars in metaStuck, of the videos in videoStuck) ends the work on that
\* video only; then last_cleanup is set and the ledger saved, and a save
\* that raises is logged
cleanup_old_downloads(dc, disk, fs, old, metaStuck, videoStuck, t, io) ==
    LET gone == {f \in old : WithSuffix(f, JsonExt) \notin fs \/ f \notin metaStuck}
        dc2 == [dc EXCEPT !.last_cleanup = isoformat(t)]
    IN [dc |-> dc2, disk |-> save_downloaded_content(disk, dc2, io),
        fs |-> (fs \ {WithSuffix(f, JsonExt) : f \in gone})
                   \ {f \in gone : f \notin videoStuck}]

\* ------------------------------------------------------ rate-limit handler
\* base_delay = 30, and the length of a sleep of a longer delay
BaseDelay == 30

\* delays above this are slept in pieces
ChunkedAbove == 60

\* delay = base_delay * (2 ** (attempt - 1))
handler_delay_linear(attempt) == BaseDelay * attempt

handler_delay(attempt) == BaseDelay * Pow2(attempt - 1)

\* the time.sleep calls for a delay: delay // 30 sleeps of 30 seconds and one
\* of delay % 30 when delay > 60, one sleep of the whole delay otherwise
handler_sleeps(delay) ==
    IF delay > ChunkedAbove
    THEN [i \in 1..(delay \div BaseDelay) |-> BaseDelay] \o <<delay % BaseDelay>>
    ELSE <<delay>>

\* whether the handler logs in again
relogs_from_first(attempt) == attempt >= 1

relogs(attempt) == attempt >= 2

\* enhanced_rate_limit_handler: the result, the seconds of each sleep, the
\* calls in their order, and the session afterwards
enhanced_rate_limit_handler(sess, attempt, loginOk) ==
    LET sleeps == handler_sleeps(handler_delay(attempt))
        slept == [i \in 1..Len(sleeps) |-> Call("sleep", TRUE)]
    IN IF relogs(attempt)
       THEN [ret |-> IF login_instagram(loginOk) THEN "True" ELSE "False",
             sleeps |-> sleeps,
             calls |-> slept \o <<Call("login", loginOk)>>,
             session |-> sess \/ login_instagram(loginOk)]
       ELSE [ret |-> "True", sleeps |-> sleeps, calls |-> slept, session |-> sess]

\* ------------------------------------------------------------------- Init
\* What earlier runs left for __init__ to find: nothing; a downloaded reel
\* that was not posted yet; the record of a posted user video; the thumbnail
\* of a posted reel whose deletion cleanup_posted_viral_reel gave up on.
Leftovers ==
    { [ids |-> <<>>, videos |-> <<>>, files |-> {}],
      [ids |-> <<Str(12)>>, videos |-> <<>>,
       files |-> {FinalName(12, 1), WithSuffix(FinalName(12, 1), JsonExt)}],
      [ids |-> <<>>,
       videos |-> <<PostedRecord(<<"user_content/", "clip", "1", ".mov">>, "ai", 1)>>,
       files |-> {}],
      [ids |-> <<Str(12)>>, videos |-> <<>>,
       files |-> {WithSuffix(FinalName(12, 1), JpgExt)}] }

\* __init__: both documents are loaded, the client has no session
InitWith(left) ==
    /\ downloaded_content = [EmptyDownloaded EXCEPT !.video_ids = left.ids]
    /\ disk_downloaded = OnDisk(downloaded_content)
    /\ posted_content = [EmptyPosted EXCEPT !.videos = left.videos]
    /\ disk_posted = OnDisk(posted_content)
    /\ files = left.files
    /\ session = FALSE
    /\ testing_mode \in BOOLEAN
    /\ now = 1
    /\ last = NoCall
    /\ fetch = NoFetch
    /\ routine = NoRoutine

Init == \E left \in Leftovers : InitWith(left)

\* two downloaded reels that were not posted yet, with their sidecars
TwoReelsLeft ==
    [ids |-> <<Str(1), Str(12)>>, videos |-> <<>>,
     files |-> {FinalName(1, 1), WithSuffix(FinalName(1, 1), JsonExt),
                FinalName(12, 1), WithSuffix(FinalName(12, 1), JsonExt)}]

\* a downloaded reel whose sidecar was never written
ReelWithoutSidecar ==
    [ids |-> <<Str(3)>>, videos |-> <<>>, files |-> {FinalName(3, 0)}]

InitRoutine ==
    \E left \in Leftovers \cup {TwoReelsLeft, ReelWithoutSidecar} : InitWith(left)

\* ---------------------------------------------------------------- actions
TrackDownload(pk, io) ==
    \E r \in {track_downloaded_video(downloaded_content, disk_downloaded, pk, io)} :
       /\ downloaded_content' = r.dc
       /\ disk_downloaded' = r.disk
       /\ io # "ok" => r.raised
       /\ last' = [NoCall EXCEPT !.op = "track", !.pk = pk, !.raised = r.raised,
                                 !.branch = r.branch,
                                 !.again = (last.op = "track" /\ last.pk = pk)]
       /\ UNCHANGED <<fetch, routine, posted_content, disk_posted, files, session, testing_mode, now>>

Track == \E pk \in MediaPks, io \in IoOutcomes : TrackDownload(pk, io)

IsAlreadyDownloaded(pk, fault) ==
    \E r \in {is_video_already_downloaded(downloaded_content, disk_downloaded,
                                           posted_content, files, pk, fault)} :
       /\ r.fault = fault
       /\ downloaded_content' = r.dc
       /\ disk_downloaded' = r.disk
       /\ last' = [NoCall EXCEPT !.op = "isdup", !.pk = pk, !.ret = r.ret,
                                 !.raised = r.raised, !.layer = r.layer,
                                 !.fault = FaultKind(r.fault)]
       /\ UNCHANGED <<fetch, routine, posted_content, disk_posted, files, session, testing_mode, now>>

IsDup == \E pk \in MediaPks, fault \in DupFaults : IsAlreadyDownloaded(pk, fault)

\* files client.video_download may report: one that passes the validation,
\* and one for each way of failing it
GoodFile == Fetched(TRUE, MinSize, MinSize, 4)
BadFile == Fetched(TRUE, MinSize - 1, MinSize - 1, 4)

\* the ways a call of download_instagram_video can go in directory fs: the
\* choices that cannot make a difference there are left out
DownloadRuns(fs, pk, t0, t1) ==
    LET final == FinalName(pk, t0)
        sidecar == WithSuffix(final, JsonExt)
        unlinks(after) ==
            {"ok"} \cup (IF FinalName(pk, t1) \in after THEN {"mp4_fails"} ELSE {})
                   \cup (IF WithSuffix(FinalName(pk, t1), JsonExt) \in after
                         THEN {"json_fails"} ELSE {})
        renamed == (fs \ {TmpName(pk)}) \cup {final}
        works == Attempt("returns", GoodFile, "ok", TRUE)
        fails == {Attempt("returns", BadFile, "ok", del) : del \in BOOLEAN}
                     \cup {Attempt("raises", GoodFile, "ok", del) : del \in BOOLEAN}
        run(attempts, after, unl, io) ==
            [attempts |-> attempts, after |-> after, unl |-> unl, io |-> io]
    IN {run(<<works, works, works>>, "ok", "ok", "ok")}
       \cup {run(<<f, f, f>>, "ok", unl, "ok") :
                 f \in fails, unl \in unlinks(fs \cup {TmpName(pk)})}
       \cup {run(<<works, works, works>>, after, unl, io) :
                 after \in {"sidecar_fails", "track_fails"},
                 unl \in unlinks(renamed \cup {sidecar}), io \in IoOutcomes \ {"ok"}}

\* fetch_viral_cat_reels_optimized, one candidate: the duplicate check and,
\* when it answers False, the download
AttemptDownload(pk, fault, t1) ==
    \E c \in {is_video_already_downloaded(downloaded_content, disk_downloaded,
                                           posted_content, files, pk, fault)} :
     /\ c.fault = fault
     /\ c.ret = "False"
     /\ \E run \in DownloadRuns(files, pk, now, t1) :
        \E d \in {download_instagram_video(c.dc, c.disk, files, pk, now, t1,
                                          run.attempts, run.after, run.unl, run.io)} :
       /\ Cardinality(d.fs) <= MaxFiles
       /\ run.after = "ok" \/ d.kind = run.after
       /\ downloaded_content' = d.dc
       /\ disk_downloaded' = d.disk
       /\ files' = d.fs
       /\ now' = t1
       /\ last' = [NoCall EXCEPT !.op = "download", !.pk = pk,
                                 !.ret = IF d.path = <<>> THEN "None" ELSE "path",
                                 !.branch = d.kind]
       /\ UNCHANGED <<fetch, routine, posted_content, disk_posted, session, testing_mode>>

\* every way a fetched file can fail the validation, and every way it can
\* just pass it
RejectedFiles ==
    { Fetched(FALSE, MinSize, MinSize, 4), Fetched(TRUE, MinSize - 1, MinSize - 1, 4),
      Fetched(TRUE, MinSize, MinSize, -1), Fetched(TRUE, MinSize, MinSize, ChunkLen - 3),
      Fetched(TRUE, MinSize, MinSize - 1, 4) }
AcceptedFiles ==
    { GoodFile, Fetched(TRUE, MaxSize + 1, MaxSize + 1, 4),
      Fetched(TRUE, MinSize, MinSize, ChunkLen - 4) }

\* the attempts that fail and the attempts that end the loop
FailingAttempts ==
    {Attempt("returns", f, "ok", TRUE) : f \in RejectedFiles}
        \cup {Attempt("returns", BadFile, "ok", FALSE),
              Attempt("returns", GoodFile, "raises", TRUE),
              Attempt("returns", GoodFile, "corrupt", TRUE),
              Attempt("returns", GoodFile, "corrupt", FALSE),
              Attempt("raises", GoodFile, "ok", TRUE),
              Attempt("raises_partial", GoodFile, "ok", TRUE)}
PassingAttempts == {Attempt("returns", f, "ok", TRUE) : f \in AcceptedFiles}

\* every way a call of download_instagram_video can go: up to two failing
\* attempts and a passing one, or three failing ones
AllDownloadRuns(fs, pk, t0, t1) ==
    LET unlinks == IF t1 = t0 THEN UnlinkOutcomes ELSE {"ok"}
        good == Attempt("returns", GoodFile, "ok", TRUE)
        passing == {<<a, good, good>> : a \in PassingAttempts}
                     \cup {<<f, a, good>> : f \in FailingAttempts, a \in PassingAttempts}
                     \cup {<<x[1], x[2], a>> :
                               x \in FailingAttempts \X FailingAttempts,
                               a \in PassingAttempts}
        failing == {<<x[1], x[2], x[3]>> :
                       x \in FailingAttempts \X FailingAttempts \X FailingAttempts}
        run(attempts, after, unl, io) ==
            [attempts |-> attempts, after |-> after, unl |-> unl, io |-> io]
    IN {run(as, "ok", "ok", "ok") : as \in passing \cup failing}
       \cup {run(as, after, unl, io) :
                 as \in passing, after \in {"sidecar_fails", "track_fails"},
                 unl \in unlinks, io \in IoOutcomes \ {"ok"}}

\* download_instagram_video called once in the directory the process found
DownloadVideo(pk, t1, run) ==
    \E d \in {download_instagram_video(downloaded_content, disk_downloaded, files,
                                        pk, now, t1, run.attempts, run.after,
                                        run.unl, run.io)} :
       /\ run.after = "ok" \/ d.kind = run.after
       /\ downloaded_content' = d.dc
       /\ disk_downloaded' = d.disk
       /\ files' = d.fs
       /\ now' = t1
       /\ last' = [NoCall EXCEPT !.op = "download", !.pk = pk,
                                 !.ret = IF d.path = <<>> THEN "None" ELSE "path",
                                 !.branch = d.kind, !.n = d.n,
                                 !.arg = run.attempts, !.out = d.sleeps]
       /\ UNCHANGED <<fetch, routine, posted_content, disk_posted, session, testing_mode>>

DownloadOnce ==
    /\ last.op = "none"
    /\ \E pk \in MediaPks, t1 \in {now, now + 1} :
        /\ t1 <= MaxClock
        /\ \E run \in AllDownloadRuns(files, pk, now, t1) : DownloadVideo(pk, t1, run)

\* A listing that raises in a later layer lets no download through that the
\* listing of the first layer raising does not let through as well.
Download ==
    \E pk \in MediaPks, fault \in DupFaults \ {"glob_json", "iterdir"},
       t1 \in {now, now + 1} :
        /\ t1 <= MaxClock
        /\ AttemptDownload(pk, fault, t1)

\* the paths post_content is called with: the user's files and the videos
\* in downloads/videos
Postable == UserFiles \cup {DownloadPath(f) : f \in {g \in files : Suffix(g) = Mp4Ext}}

PostContent(path, caption, run) ==
    \E r \in {post_content(testing_mode, session, posted_content, disk_posted,
                            files, path, caption, now, run)} :
       /\ Len(r.pc.images) + Len(r.pc.videos) <= MaxPosted
       /\ Cardinality(r.fs) <= MaxFiles
       /\ posted_content' = r.pc
       /\ disk_posted' = r.disk
       /\ session' = r.session
       /\ files' = r.fs
       /\ last' = [NoCall EXCEPT !.op = "post", !.file = path, !.ret = r.ret,
                                 !.calls = r.calls, !.fault = FaultKind(r.fault),
                                 !.branch = r.branch]
       /\ UNCHANGED <<fetch, routine, downloaded_content, disk_downloaded, testing_mode, now>>

Post == \E path \in Postable, caption \in Captions :
            \E run \in PostRuns(testing_mode, session, path) :
                PostContent(path, caption, run)

\* time passes
Tick ==
    /\ now < MaxClock
    /\ now' = now + 1
    /\ last' = [NoCall EXCEPT !.op = "tick"]
    /\ UNCHANGED <<fetch, routine, downloaded_content, disk_downloaded, posted_content,
                   disk_posted, files, session, testing_mode>>

\* __init__ of a new process: both documents are loaded from disk and the
\* client starts without a session
Restart ==
    /\ downloaded_content' = load_downloaded_content(disk_downloaded)
    /\ posted_content' = load_posted_content(disk_posted)
    /\ session' = FALSE
    /\ last' = [NoCall EXCEPT !.op = "restart"]
    /\ UNCHANGED <<fetch, routine, disk_downloaded, disk_posted, files, testing_mode, now>>

\* track_downloaded_video called with one fresh pk after the other
TrackNext ==
    \E pk \in 1..MaxDistinct :
        /\ pk = IF last.op = "track" THEN last.pk + 1 ELSE 1
        /\ TrackDownload(pk, "ok")

\* the lists of videos a caller may hand to filter_unposted_existing_videos:
\* the *.mp4 files of downloads/videos in any order glob may give them
Listings(fs) ==
    LET ps == {DownloadPath(f) : f \in {g \in fs : Suffix(g) = Mp4Ext}}
    IN {<<>>} \cup {<<a>> : a \in ps}
              \cup {<<x[1], x[2]>> : x \in {y \in ps \X ps : y[1] # y[2]}}

FilterUnposted(existing) ==
    /\ last' = [NoCall EXCEPT !.op = "filter", !.arg = existing,
                              !.out = filter_unposted_existing_videos(
                                          posted_content, existing, now)]
    /\ UNCHANGED <<fetch, routine, downloaded_content, disk_downloaded, posted_content,
                   disk_posted, files, session, testing_mode, now>>

Filter == \E existing \in Listings(files) : FilterUnposted(existing)

CleanupReel(path, dv, dm, dt) ==
    \E r \in {cleanup_posted_viral_reel(files, path, dv, dm, dt)} :
       /\ files' = r.fs
       /\ last' = [NoCall EXCEPT !.op = "cleanup", !.file = path, !.ret = r.ret]
       /\ UNCHANGED <<fetch, routine, downloaded_content, disk_downloaded, posted_content,
                      disk_posted, session, testing_mode, now>>

\* the same call, observed with the course of its unlink calls and with
\* what safe_delete_file did for each of the three files
CleanupTried(path, dv, dm, dt) ==
    \E r \in {cleanup_posted_viral_reel(files, path, dv, dm, dt)} :
       /\ files' = r.fs
       /\ last' = [NoCall EXCEPT !.op = "cleanup", !.file = path, !.ret = r.ret,
                                 !.arg = <<dv, dm, dt>>, !.out = r.tries]
       /\ UNCHANGED <<fetch, routine, downloaded_content, disk_downloaded, posted_content,
                      disk_posted, session, testing_mode, now>>

\* cleanup of a video of downloads/videos; the outcome of an unlink is
\* chosen for the files that are there
Cleanup ==
    \E path \in {q \in Postable : InDownloads(q)},
       dv \in DeleteOutcomes, dm \in DeleteOutcomes, dt \in DeleteOutcomes :
        /\ dm # "ok" => WithSuffix(BaseName(path), JsonExt) \in files
        /\ dt # "ok" => WithSuffix(BaseName(path), JpgExt) \in files
        /\ CleanupReel(path, dv, dm, dt)

SweepOld(old, metaStuck, videoStuck, io) ==
    \E r \in {cleanup_old_downloads(downloaded_content, disk_downloaded, files,
                                     old, metaStuck, videoStuck, now, io)} :
       /\ downloaded_content' = r.dc
       /\ disk_downloaded' = r.disk
       /\ files' = r.fs
       /\ last' = [NoCall EXCEPT !.op = "sweep", !.fault = FaultKind(io)]
       /\ UNCHANGED <<fetch, routine, posted_content, disk_posted, session, testing_mode, now>>

\* the videos whose modification time is before the cutoff are any of the
\* *.mp4 files: the file system keeps that time, not the program
Sweep ==
    \E old \in SUBSET {g \in files : Suffix(g) = Mp4Ext}, io \in IoOutcomes :
        \E metaStuck \in SUBSET {f \in old : WithSuffix(f, JsonExt) \in files},
           videoStuck \in SUBSET old :
            SweepOld(old, metaStuck, videoStuck, io)

\* post_content with the caption the AI generated
PostAi == \E path \in Postable :
              \E run \in PostRuns(testing_mode, session, path) :
                  PostContent(path, "ai", run)

\* the duplicate check and the tracking with every listing and save working
IsDupOk == \E pk \in MediaPks : IsAlreadyDownloaded(pk, "ok")
TrackOk == \E pk \in MediaPks : TrackDownload(pk, "ok")

\* ----------------------------------------------------- actions of a fetch
\* the media the platform lists under a hashtag: two reels, one with
\* like_count None, a photo, and a reel with too little engagement
ReelA == Media(1, 2, 1000, 0)
ReelB == Media(12, 2, -1, 20)
Photo == Media(2, 1, 5000, 50)
DullReel == Media(3, 2, 999, 19)
TopMedias ==
    { <<>>, <<ReelA>>, <<ReelB, ReelA>>, <<ReelA, ReelA>>, <<Photo, DullReel>>,
      <<DullReel, ReelB>> }

\* hashtags with three candidates: in ascending and in descending order of
\* score, and with two that score the same
ReelC == Media(4, 2, 2000, 30)
ReelD == Media(5, 2, 1000, 0)
ThreeCandidates ==
    { <<ReelB, ReelA, ReelC>>, <<ReelC, ReelA, ReelB>>, <<ReelA, ReelD, ReelC>> }

\* how the search of a hashtag ends: the list of its top media, or an
\* exception that speaks of a rate limit, of the login, or of neither
TagOutcomes == {"medias", "rate_limit", "auth", "error"}

\* the fetch begins: the client is logged in when it has no session, and
\* the result of that login is not looked at
FetchBegin(max, loginOk) ==
    /\ fetch.pc = "idle"
    /\ session => loginOk
    /\ session' = (session \/ login_instagram(loginOk))
    /\ fetch' = [NoFetch EXCEPT !.pc = "hashtag", !.max = max, !.tags = MaxHashtags]
    /\ last' = [NoCall EXCEPT !.op = "fetch_begin", !.n = max]
    /\ UNCHANGED <<downloaded_content, disk_downloaded, posted_content,
                   disk_posted, files, testing_mode, now, routine>>

\* after an exception that speaks of the login: login_instagram once, and
\* the fetch ends when it fails, goes on with the next hashtag otherwise
auth_error_goes_on(f, ok) == [f EXCEPT !.tags = @ - 1]

after_auth_error(f, ok) ==
    IF ok THEN [f EXCEPT !.tags = @ - 1] ELSE [f EXCEPT !.pc = "done"]

\* the attempt number the handler gets from the fetch: the default of its
\* parameter, whatever the attempt of fetch_viral_cat_reels_with_retry
HandlerAttemptInFetch == 1

\* the head of the loop over the hashtags and the search of the next one
FetchHashtag(late, outcome, medias, loginOk) ==
    /\ fetch.pc = "hashtag"
    /\ fetch.late => late
    /\ LET stop == fetch.tags = 0 \/ late \/ limit_reached(fetch.got, fetch.max)
           f == [fetch EXCEPT !.late = late]
       IN /\ stop => outcome = "error" /\ medias = <<>> /\ loginOk
          /\ (~stop /\ outcome # "medias") => medias = <<>>
          /\ (~stop /\ outcome # "auth") => loginOk
          /\ fetch' =
               CASE stop -> [f EXCEPT !.pc = "done"]
                 [] ~stop /\ outcome = "medias" ->
                        [f EXCEPT !.pc = "filter", !.medias = medias, !.i = 1,
                                  !.cands = <<>>]
                 [] ~stop /\ outcome = "auth" ->
                        after_auth_error(f, login_instagram(loginOk))
                 [] OTHER -> [f EXCEPT !.tags = @ - 1]
          /\ \E h \in {enhanced_rate_limit_handler(session, HandlerAttemptInFetch,
                                                    loginOk)} :
                /\ session' = CASE ~stop /\ outcome = "auth" -> login_instagram(loginOk)
                                [] ~stop /\ outcome = "rate_limit" -> h.session
                                [] OTHER -> session
                /\ last' =
                     CASE ~stop /\ outcome = "auth" ->
                            [NoCall EXCEPT !.op = "hashtag", !.branch = outcome,
                               !.calls = <<Call("login", loginOk)>>]
                       [] ~stop /\ outcome = "rate_limit" ->
                            [NoCall EXCEPT !.op = "hashtag", !.branch = outcome,
                               !.calls = <<Call("enhanced_rate_limit_handler",
                                               h.ret = "True")>> \o h.calls,
                               !.n = HandlerAttemptInFetch, !.out = h.sleeps]
                       [] OTHER ->
                            [NoCall EXCEPT !.op = "hashtag",
                               !.branch = IF stop THEN "stop" ELSE outcome]
    /\ UNCHANGED <<downloaded_content, disk_downloaded, posted_content,
                   disk_posted, files, testing_mode, now, routine>>

\* one media of the hashtag: the duplicate check, then type and engagement;
\* after the last media the candidates are sorted
FetchFilter(late, fault) ==
    /\ fetch.pc = "filter"
    /\ fetch.late => late
    /\ IF fetch.i > Len(fetch.medias) \/ late
       THEN /\ fault = "ok"
            /\ fetch' = [fetch EXCEPT !.pc = "download", !.late = late, !.j = 1,
                                      !.cands = sort_by_score(@)]
            /\ last' = [NoCall EXCEPT !.op = "sort"]
            /\ UNCHANGED <<downloaded_content, disk_downloaded>>
       ELSE \E m \in {fetch.medias[fetch.i]} :
            \E c \in {is_video_already_downloaded(downloaded_content,
                           disk_downloaded, posted_content, files, m.pk, fault)} :
              /\ c.fault = fault
              /\ downloaded_content' = c.dc
              /\ disk_downloaded' = c.disk
              /\ fetch' = [fetch EXCEPT
                              !.i = @ + 1,
                              !.cands = IF c.ret = "False" /\ is_candidate(m)
                                        THEN Append(@, Candidate(m)) ELSE @]
              /\ last' = [NoCall EXCEPT !.op = "isdup", !.pk = m.pk, !.ret = c.ret,
                                        !.layer = c.layer,
                                        !.fault = FaultKind(c.fault)]
    /\ UNCHANGED <<posted_content, disk_posted, files, session, testing_mode,
                   now, routine>>

\* the head of the loop over the two best candidates: the loop is left
\* when the candidates are used up, when the time budget is spent and when
\* the limit is reached
no_budget_check_before_download(f, late) ==
    \/ f.j > Len(f.cands) \/ f.j > 2
    \/ limit_reached(f.got, f.max)

downloads_over(f, late) ==
    \/ f.j > Len(f.cands) \/ f.j > 2
    \/ late \/ limit_reached(f.got, f.max)

\* one of the two best candidates: the duplicate check and the download
FetchCandidate(late, fault, t1) ==
    /\ fetch.pc = "download"
    /\ fetch.late => late
    /\ IF downloads_over(fetch, late)
       THEN /\ fault = "ok" /\ t1 = now
            /\ fetch' = after_hashtag([fetch EXCEPT !.late = late])
            /\ last' = [NoCall EXCEPT !.op = "hashtag_end"]
            /\ UNCHANGED <<downloaded_content, disk_downloaded, files, now>>
       ELSE \E m \in {fetch.cands[fetch.j].media} :
            \E c \in {second_check(downloaded_content, disk_downloaded,
                                    posted_content, files, m.pk, fault)} :
              /\ c.fault = fault
              /\ IF c.ret = "True"
                 THEN /\ t1 = now
                      /\ downloaded_content' = c.dc
                      /\ disk_downloaded' = c.disk
                      /\ fetch' = [fetch EXCEPT !.j = @ + 1]
                      /\ last' = [NoCall EXCEPT !.op = "candidate", !.pk = m.pk,
                                      !.ret = "skipped", !.arg = <<m>>,
                                      !.calls = <<Call("is_video_already_downloaded", TRUE)>>]
                      /\ UNCHANGED <<files, now>>
                 ELSE \E r \in DownloadRuns(files, m.pk, now, t1) :
                      \E d \in {download_instagram_video(c.dc, c.disk, files, m.pk,
                                     now, t1, r.attempts, r.after, r.unl, r.io)} :
                      /\ Cardinality(d.fs) <= MaxFiles
                      /\ r.after = "ok" \/ d.kind = r.after
                      /\ downloaded_content' = d.dc
                      /\ disk_downloaded' = d.disk
                      /\ files' = d.fs
                      /\ now' = t1
                      /\ fetch' =
                           IF d.path = <<>> THEN [fetch EXCEPT !.j = @ + 1]
                           ELSE LET f == [fetch EXCEPT !.got = Append(@, d.path),
                                                      !.pks = Append(@, m.pk),
                                                      !.j = @ + 1]
                                IN IF limit_reached(f.got, f.max)
                                   THEN after_hashtag(f) ELSE f
                      /\ last' = [NoCall EXCEPT !.op = "candidate", !.pk = m.pk,
                                      !.ret = IF d.path = <<>> THEN "None" ELSE "path",
                                      !.branch = d.kind, !.arg = <<m>>,
                                      !.n = Len(fetch.got),
                                      !.calls = <<Call("is_video_already_downloaded", FALSE)>>]
    /\ UNCHANGED <<posted_content, disk_posted, session, testing_mode, routine>>

\* the fetch returns downloaded_videos to a caller other than the routine
FetchReturn ==
    /\ fetch.pc = "done"
    /\ routine.pc = "idle"
    /\ fetch' = NoFetch
    /\ last' = [NoCall EXCEPT !.op = "fetch", !.out = fetch.got, !.n = fetch.max]
    /\ UNCHANGED <<downloaded_content, disk_downloaded, posted_content,
                   disk_posted, files, session, testing_mode, now, routine>>

\* whether the time budget of 3 minutes is spent by now: once it is, it stays
Lateness == IF fetch.late THEN {TRUE} ELSE BOOLEAN

\* the first fetch of a process
FetchStart ==
    /\ last.op = "none"
    /\ \E max \in 0..2, loginOk \in BOOLEAN : FetchBegin(max, loginOk)
FetchTag ==
    \E late \in Lateness, outcome \in TagOutcomes, medias \in TopMedias,
       loginOk \in BOOLEAN : FetchHashtag(late, outcome, medias, loginOk)
FetchMedia ==
    \E late \in Lateness, fault \in {"ok", "glob_mp4"} : FetchFilter(late, fault)
FetchDownload ==
    \E late \in Lateness, fault \in {"ok", "write_fails"}, t1 \in {now, now + 1} :
        /\ t1 <= MaxClock
        /\ FetchCandidate(late, fault, t1)

\* --------------------------------------------- actions of a posting routine
\* list[:n]
take_all(list, n) == list

take(list, n) == SubSeq(list, 1, IF n < Len(list) THEN n ELSE Len(list))

\* max_downloads_needed = min(remaining_posts, 1)
downloads_needed_all(remaining) == remaining

downloads_needed(remaining) == IF remaining < 1 THEN remaining ELSE 1

\* cleanup_posted_viral_reel is called after a post that succeeded and after
\* one that failed
cleanup_only_after_success(ok) == ok

cleanup_after_post(ok) == TRUE

\* fetch_viral_cat_reels_with_retry tries max_retries = 3 times
MaxRetries == 3

\* the unit of retry_delay = 60 * (retry_attempt + 1)
RetryDelayUnit == 60

\* the sleep after a fetch that brought nothing (retry_attempt counts from
\* 0): none after the last attempt
wait_after_empty(retry_attempt) ==
    IF retry_attempt < MaxRetries - 1
    THEN <<RetryDelayUnit * (retry_attempt + 1)>> ELSE <<>>

\* what scan_user_content finds: nothing, one image, an image and a video,
\* or the image listed once more behind them
UserScans ==
    { <<>>, <<<<"user_content/", "cat", ".jpg">>>>,
      << <<"user_content/", "cat", ".jpg">>, <<"user_content/", "clip", "1", ".mov">> >>,
      << <<"user_content/", "cat", ".jpg">>, <<"user_content/", "clip", "1", ".mov">>,
         <<"user_content/", "cat", ".jpg">> >> }

\* the courses of a post in which no thumbnail is left behind
PlainPostRuns(testing, sess, path) ==
    {r \in PostRuns(testing, sess, path) : r.thumb = "none" /\ ~r.slow}

\* where the routine goes on after a post: a failure leaves post_content
\* as False, never as an exception
post_failure_escapes(tier, ok) ==
    CASE ~ok -> "raised"
      [] tier = "user" -> "user"
      [] tier = "fetch" -> "reel_cleanup"
      [] OTHER -> "existing_cleanup"

after_post(tier, ok) ==
    CASE tier = "user" -> "user"
      [] tier = "fetch" -> "reel_cleanup"
      [] OTHER -> "existing_cleanup"

\* the routine begins: quota, and the user files to post
RoutineBegin(user_files) ==
    /\ routine.pc = "idle" /\ fetch.pc = "idle"
    /\ LET target == IF testing_mode THEN 1 ELSE 2
       IN routine' = [NoRoutine EXCEPT !.pc = "user", !.target_posts = target,
                                      !.scanned = Len(user_files),
                                      !.todo = take(user_files, target)]
    /\ last' = [NoCall EXCEPT !.op = "routine_begin"]
    /\ UNCHANGED <<downloaded_content, disk_downloaded, posted_content,
                   disk_posted, files, session, testing_mode, now, fetch>>

\* post_content called by the routine for the first file of todo
RoutinePost(tier, r) ==
    \E path \in {routine.todo[1]}, caption \in Captions :
    \E p \in {post_content(testing_mode, session, posted_content, disk_posted,
                            files, path, caption, now, r)} :
       /\ posted_content' = p.pc
       /\ disk_posted' = p.disk
       /\ session' = p.session
       /\ files' = p.fs
       /\ routine' =
            [routine EXCEPT
               !.todo = Tail(@),
               !.handed = Append(@, [tier |-> tier, path |-> path,
                                     ok |-> p.ret = "True"]),
               !.ok = p.ret = "True",
               !.pending = IF tier = "user" THEN <<>> ELSE <<path>>,
               !.content_posted = IF tier = "user" /\ p.ret = "True"
                                  THEN @ + 1 ELSE @,
               !.pc = after_post(tier, p.ret = "True")]
       /\ last' = [NoCall EXCEPT !.op = "post", !.file = path, !.ret = p.ret,
                                 !.calls = p.calls, !.branch = tier]
       /\ UNCHANGED <<downloaded_content, disk_downloaded, testing_mode, now, fetch>>

\* the user files, then the listing of downloads/videos
RoutineUser(listing) ==
    /\ routine.pc = "user"
    /\ IF routine.todo # <<>>
       THEN \E r \in PlainPostRuns(testing_mode, session, routine.todo[1]) :
               RoutinePost("user", r)
       ELSE /\ routine' = [routine EXCEPT
                              !.existing_videos = listing,
                              !.pc = IF routine.content_posted < routine.target_posts
                                     THEN "fetch" ELSE "end"]
            /\ last' = [NoCall EXCEPT !.op = "list", !.out = listing]
            /\ UNCHANGED <<downloaded_content, disk_downloaded, posted_content,
                           disk_posted, files, session, testing_mode, now, fetch>>

\* fetch_viral_cat_reels_with_retry: the next fetch begins, or the retries
\* are used up
RoutineFetch(loginOk) ==
    /\ routine.pc = "fetch"
    /\ IF routine.retry_attempt < MaxRetries
       THEN \E max \in {downloads_needed(routine.target_posts - routine.content_posted)} :
              /\ session => loginOk
              /\ session' = (session \/ login_instagram(loginOk))
              /\ fetch' = [NoFetch EXCEPT !.pc = "hashtag", !.max = max,
                                          !.tags = MaxHashtags]
              /\ routine' = [routine EXCEPT
                                !.pc = "fetching",
                                !.fetched = Append(@, [max |-> max,
                                       content_posted |-> routine.content_posted])]
              /\ last' = [NoCall EXCEPT !.op = "fetch_begin", !.n = max]
       ELSE /\ loginOk
            /\ routine' = [routine EXCEPT !.pc = "fallback"]
            /\ last' = [NoCall EXCEPT !.op = "fetch_gave_up"]
            /\ UNCHANGED <<session, fetch>>
    /\ UNCHANGED <<downloaded_content, disk_downloaded, posted_content,
                   disk_posted, files, testing_mode, now>>

\* the fetch returns to fetch_viral_cat_reels_with_retry: videos end the
\* retries and go to the routine, an empty list leads to the next attempt
RoutineFetched ==
    /\ routine.pc = "fetching" /\ fetch.pc = "done"
    /\ fetch' = NoFetch
    /\ routine' = IF fetch.got # <<>>
                  THEN [routine EXCEPT !.pc = "reels", !.todo = fetch.got]
                  ELSE [routine EXCEPT !.pc = "fetch", !.retry_attempt = @ + 1,
                                       !.waits = @ \o wait_after_empty(
                                                        routine.retry_attempt)]
    /\ last' = [NoCall EXCEPT !.op = "fetch", !.out = fetch.got, !.n = fetch.max]
    /\ UNCHANGED <<downloaded_content, disk_downloaded, posted_content,
                   disk_posted, files, session, testing_mode, now>>

\* the downloaded reels: each is posted while quota remains
RoutineReel ==
    /\ routine.pc = "reels"
    /\ IF routine.todo # <<>> /\ routine.content_posted < routine.target_posts
       THEN \E r \in PlainPostRuns(testing_mode, session, routine.todo[1]) :
               RoutinePost("fetch", r)
       ELSE /\ routine' = [routine EXCEPT !.pc = "fallback", !.todo = <<>>]
            /\ last' = [NoCall EXCEPT !.op = "reels_end"]
            /\ UNCHANGED <<downloaded_content, disk_downloaded, posted_content,
                           disk_posted, files, session, testing_mode, now, fetch>>

\* cleanup_posted_viral_reel for the video just handed to post_content, and
\* content_posted counted up after a post that succeeded
RoutineCleanup(dv) ==
    /\ routine.pc \in {"reel_cleanup", "existing_cleanup"}
    /\ \E path \in {routine.pending[1]} :
       \E c \in {IF cleanup_after_post(routine.ok)
                  THEN cleanup_posted_viral_reel(files, path, dv, "ok", "ok")
                  ELSE [ret |-> "None", fs |-> files]} :
          /\ dv # "ok" => (BaseName(path) \in files /\ c.ret # "None")
          /\ files' = c.fs
          /\ routine' =
               [routine EXCEPT
                  !.pending = <<>>,
                  !.cleaned = IF c.ret = "None" THEN @ ELSE Append(@, path),
                  !.content_posted = IF routine.ok THEN @ + 1 ELSE @,
                  !.pc = IF @ = "reel_cleanup" THEN "reels" ELSE "existing"]
          /\ last' = [NoCall EXCEPT !.op = "cleanup", !.file = path, !.ret = c.ret]
    /\ UNCHANGED <<downloaded_content, disk_downloaded, posted_content,
                   disk_posted, session, testing_mode, now, fetch>>

\* the fallback tier: while quota remains, the existing videos that were
\* not posted recently
RoutineFallback ==
    /\ routine.pc = "fallback"
    /\ routine' =
         IF routine.content_posted < routine.target_posts
         THEN [routine EXCEPT
                 !.pc = "existing",
                 !.todo = take(filter_unposted_existing_videos(
                                   posted_content, routine.existing_videos, now),
                               routine.target_posts - routine.content_posted)]
         ELSE [routine EXCEPT !.pc = "end"]
    /\ last' = [NoCall EXCEPT !.op = "filter", !.arg = routine.existing_videos,
                              !.out = routine'.todo]
    /\ UNCHANGED <<downloaded_content, disk_downloaded, posted_content,
                   disk_posted, files, session, testing_mode, now, fetch>>

\* the existing videos the filter let through
RoutineExisting ==
    /\ routine.pc = "existing"
    /\ IF routine.todo # <<>>
       THEN \E r \in PlainPostRuns(testing_mode, session, routine.todo[1]) :
               RoutinePost("fallback", r)
       ELSE /\ routine' = [routine EXCEPT !.pc = "end"]
            /\ last' = [NoCall EXCEPT !.op = "existing_end"]
            /\ UNCHANGED <<downloaded_content, disk_downloaded, posted_content,
                           disk_posted, files, session, testing_mode, now, fetch>>

\* the routine of a process, begun once
RoutineStart ==
    /\ last.op = "none"
    /\ \E user_files \in UserScans : RoutineBegin(user_files)
RoutineUserTier ==
    \E listing \in {l \in Listings(files) :
                        Len(l) = Cardinality({g \in files : Suffix(g) = Mp4Ext})} :
        RoutineUser(listing)
RoutineFetchTier == \E loginOk \in BOOLEAN : RoutineFetch(loginOk)
RoutineHashtag ==
    /\ routine.pc = "fetching"
    /\ \E late \in Lateness, outcome \in {"medias", "rate_limit", "error"},
          medias \in {<<>>, <<ReelA>>} : FetchHashtag(late, outcome, medias, TRUE)
RoutineMedia == routine.pc = "fetching" /\ FetchFilter(fetch.late, "ok")
RoutineDownload ==
    /\ routine.pc = "fetching"
    /\ \E t1 \in {now, now + 1} :
          t1 <= MaxClock /\ FetchCandidate(fetch.late, "ok", t1)
RoutineCleanupTier == \E dv \in {"ok", "denied"} : RoutineCleanup(dv)

\* ----------------------------------------------------------- specifications
\* the tracker and the download that feeds it, in live mode (none of the
\* three reads testing_mode)
InitLive == Init /\ ~testing_mode
Next == Track \/ IsDup \/ Download

Spec == InitLive /\ [][Next]_vars

\* the publisher across clock ticks and process restarts, in both modes
NextPublisher == Post \/ Tick \/ Restart

SpecPublisher == Init /\ [][NextPublisher]_vars

\* the ledger filled from empty with pairwise distinct ids, every save
\* succeeding
InitBound == InitLive /\ downloaded_content = EmptyDownloaded
                      /\ posted_content = EmptyPosted /\ files = {}
NextBound == TrackNext

SpecBound == InitBound /\ [][NextBound]_vars

\* the operations that work on the posted content and on downloads/videos,
\* called in any order within one process
NextOps == PostAi \/ IsDupOk \/ TrackOk \/ Filter \/ Cleanup \/ Sweep

SpecOps == Init /\ [][NextOps]_vars

\* one download with every course its attempts can take
NextDownload == DownloadOnce

SpecDownload == InitLive /\ [][NextDownload]_vars

\* one call of fetch_viral_cat_reels_optimized
NextFetch == FetchStart \/ FetchTag \/ FetchMedia \/ FetchDownload \/ FetchReturn

SpecFetch == InitLive /\ [][NextFetch]_vars

\* one fetch in which every hashtag brings three candidates or raises
CandidatesTag ==
    \E outcome \in {"medias", "error"}, medias \in ThreeCandidates \cup {<<>>} :
        FetchHashtag(FALSE, outcome, medias, TRUE)
CandidatesMedia == FetchFilter(FALSE, "ok")
CandidatesDownload == FetchCandidate(FALSE, "ok", now)

NextCandidates ==
    FetchStart \/ CandidatesTag \/ CandidatesMedia \/ CandidatesDownload \/ FetchReturn

SpecCandidates == InitLive /\ [][NextCandidates]_vars

\* another process (the cron job beside the web service) is constructed,
\* loads the documents, posts a user file with a caption of its own and
\* saves, while the routine of this process is under way
PeerPost(path, r) ==
    /\ routine.pc \notin {"idle", "end"}
    /\ routine.peer = <<>>
    /\ \E p \in {post_content(testing_mode, FALSE, load_posted_content(disk_posted),
                               disk_posted, files, path, "other", now, r)} :
          /\ p.ret = "True"
          /\ disk_posted' = p.disk
          /\ files' = p.fs
          /\ routine' = [routine EXCEPT
                            !.peer = <<PostedRecord(path, "other", now)>>]
          /\ last' = [NoCall EXCEPT !.op = "peer_post", !.file = path, !.ret = p.ret,
                                    !.calls = p.calls]
    /\ UNCHANGED <<downloaded_content, disk_downloaded, posted_content, session,
                   testing_mode, now, fetch>>

PeerPosts ==
    \E path \in {<<"user_content/", "cat", ".jpg">>} :
    \E r \in PlainPostRuns(testing_mode, FALSE, path) : PeerPost(path, r)

\* calls of enhanced_rate_limit_handler
HandleRateLimit(attempt, loginOk) ==
    \E h \in {enhanced_rate_limit_handler(session, attempt, loginOk)} :
       /\ session' = h.session
       /\ last' = [NoCall EXCEPT !.op = "rate_limit_handler", !.n = attempt,
                                 !.ret = h.ret, !.calls = h.calls, !.out = h.sleeps]
       /\ UNCHANGED <<downloaded_content, disk_downloaded, posted_content,
                      disk_posted, files, testing_mode, now, fetch, routine>>

HandlerCall ==
    \E attempt \in 1..MaxAttempt, loginOk \in BOOLEAN :
        /\ ~relogs(attempt) => loginOk
        /\ HandleRateLimit(attempt, loginOk)

NextHandler == HandlerCall

SpecHandler == InitRoutine /\ [][NextHandler]_vars

\* one call of cleanup_posted_viral_reel in a process that finds a reel with
\* its sidecar and thumbnail, or one of the other leftovers
ReelWithThumbnail ==
    [ids |-> <<Str(3)>>, videos |-> <<>>,
     files |-> {FinalName(3, 0), WithSuffix(FinalName(3, 0), JsonExt),
                WithSuffix(FinalName(3, 0), JpgExt)}]

InitCleanup ==
    \E left \in Leftovers \cup {TwoReelsLeft, ReelWithThumbnail} : InitWith(left)

CleanupOnce ==
    /\ last.op = "none"
    /\ \E path \in {DownloadPath(FinalName(3, 0)), DownloadPath(FinalName(12, 1))},
          dv \in DeleteOutcomes \cup MoreDeleteOutcomes,
          dm \in DeleteOutcomes \cup MoreDeleteOutcomes,
          dt \in DeleteOutcomes \cup MoreDeleteOutcomes :
          /\ dv # "ok" => BaseName(path) \in files
          /\ dm # "ok" => WithSuffix(BaseName(path), JsonExt) \in files
          /\ dt # "ok" => WithSuffix(BaseName(path), JpgExt) \in files
          /\ CleanupTried(path, dv, dm, dt)

NextCleanup == CleanupOnce

SpecCleanup == InitCleanup /\ [][NextCleanup]_vars

\* one call of enhanced_posting_routine
NextRoutine ==
    \/ RoutineStart \/ RoutineUserTier \/ RoutineFetchTier \/ RoutineHashtag
    \/ RoutineMedia \/ RoutineDownload \/ RoutineFetched \/ RoutineReel
    \/ RoutineCleanupTier \/ RoutineFallback \/ RoutineExisting

SpecRoutine == InitRoutine /\ [][NextRoutine]_vars

\* the routine is sequential code: it goes on as long as it has a next step
SpecRoutineLive == SpecRoutine /\ WF_vars(NextRoutine)

\* two overlapping invocations in live mode
InitOverlap == InitRoutine /\ ~testing_mode

NextOverlap == NextRoutine \/ PeerPosts

SpecOverlap == InitOverlap /\ [][NextOverlap]_vars

\* the filter in a process that finds up to two records of posted reels,
\* some older than a week, some with a timestamp that does not parse, and
\* the two reels still in downloads/videos
OldReels == {FinalName(1, 1), FinalName(12, 1)}
PostedBefore ==
    {[PostedRecord(DownloadPath(f), "ai", 1) EXCEPT !.posted_at = at] :
         f \in OldReels,
         at \in {isoformat(LongAfter - 10), isoformat(LongAfter - 7),
                 isoformat(LongAfter - 3), <<"yesterday">>, <<>>}}

InitFilter ==
    /\ downloaded_content = [EmptyDownloaded EXCEPT !.video_ids = <<Str(1), Str(12)>>]
    /\ disk_downloaded = OnDisk(downloaded_content)
    /\ \E videos \in {<<>>} \cup {<<a>> : a \in PostedBefore}
                            \cup {<<x[1], x[2]>> : x \in PostedBefore \X PostedBefore} :
           posted_content = [EmptyPosted EXCEPT !.videos = videos]
    /\ disk_posted = OnDisk(posted_content)
    /\ files = OldReels
    /\ session = FALSE
    /\ testing_mode = FALSE
    /\ now = LongAfter
    /\ last = NoCall
    /\ fetch = NoFetch
    /\ routine = NoRoutine

NextFilter == Filter

SpecFilter == InitFilter /\ [][NextFilter]_vars

\* ------------------------------------------------------------ captions
\* the numbers of static captions of fallback_caption and of
\* fallback_video_caption
ImageFallbacks == 3
VideoFallbacks == 5

\* random.choice of the static captions
fallback_caption(choice) == [kind |-> "fallback_caption", n |-> choice]
fallback_video_caption(choice) == [kind |-> "fallback_video_caption", n |-> choice]

\* how the call of the AI model goes: it returns a text, it returns a
\* response whose text cannot be read, or it raises (timeout, quota)
AiOutcomes == {"text", "no_text", "raises"}

\* a generator whose call of the model is outside the try
caption_unguarded(ai_model, ai, choice) ==
    CASE ai_model /\ ai = "text" -> [caption |-> [kind |-> "ai", n |-> 0], raised |-> FALSE]
      [] ai_model -> [caption |-> [kind |-> "", n |-> 0], raised |-> TRUE]
      [] OTHER -> [caption |-> fallback_caption(choice), raised |-> FALSE]

\* generate_ai_caption: the text of the model when there is a model and its
\* call works, a static caption otherwise
generate_ai_caption(ai_model, ai, choice) ==
    IF ai_model /\ ai = "text"
    THEN [caption |-> [kind |-> "ai", n |-> 0], raised |-> FALSE]
    ELSE [caption |-> fallback_caption(choice), raised |-> FALSE]

\* the sidecar of the video: none, one that does not open or parse, one
\* with an original caption and one without
SidecarStates == {"none", "unreadable", "original_caption", "no_caption"}

\* generate_video_caption: the sidecar is read inside the same try as the
\* call of the model
generate_video_caption(ai_model, meta, ai, choice) ==
    IF meta # "unreadable" /\ ai_model /\ ai = "text"
    THEN [caption |-> [kind |-> "ai", n |-> 0], raised |-> FALSE]
    ELSE [caption |-> fallback_video_caption(choice), raised |-> FALSE]

\* a caption is generated for a user file or for a downloaded video
GenerateCaption(path, ai_model, meta, ai, choice) ==
    \E c \in {IF InDownloads(path)
                THEN generate_video_caption(ai_model, meta, ai, choice)
                ELSE generate_ai_caption(ai_model, ai, choice)} :
       /\ InDownloads(path) => choice <= VideoFallbacks
       /\ ~InDownloads(path) => (choice <= ImageFallbacks /\ meta = "none")
       /\ meta \in {"unreadable", "original_caption", "no_caption"} =>
              WithSuffix(BaseName(path), JsonExt) \in files
       /\ last' = [NoCall EXCEPT !.op = "caption", !.file = path,
                                 !.raised = c.raised, !.out = <<c.caption>>,
                                 !.arg = <<ai_model, ai>>, !.branch = meta]
       /\ UNCHANGED <<downloaded_content, disk_downloaded, posted_content,
                      disk_posted, files, session, testing_mode, now, fetch,
                      routine>>

Caption ==
    \E path \in Postable, ai_model \in BOOLEAN, meta \in SidecarStates,
       ai \in AiOutcomes, choice \in 1..VideoFallbacks :
        GenerateCaption(path, ai_model, meta, ai, choice)

NextCaption == Caption

SpecCaption == InitRoutine /\ [][NextCaption]_vars

\* ------------------------------------------------------- the documents
\* the states a process finds a document in: missing, cut short, whole
FileStates(doc) == {Missing(doc), Garbled(doc), OnDisk(doc)}

\* __init__ of a process that finds each document in any of these states
InitLoad ==
    /\ \E left \in Leftovers \cup {TwoReelsLeft} :
          /\ disk_downloaded \in
                FileStates([EmptyDownloaded EXCEPT !.video_ids = left.ids])
          /\ disk_posted \in FileStates([EmptyPosted EXCEPT !.videos = left.videos])
          /\ files = left.files
    /\ downloaded_content = load_downloaded_content(disk_downloaded)
    /\ posted_content = load_posted_content(disk_posted)
    /\ session = FALSE
    /\ testing_mode \in BOOLEAN
    /\ now = 1
    /\ last = NoCall
    /\ fetch = NoFetch
    /\ routine = NoRoutine

NextLoad == Restart \/ Track

SpecLoad == InitLoad /\ [][NextLoad]_vars

\* ------------------------------------------------------------ the sweep
\* days_old, the age in days from which a download is swept
SweepDays == 7

\* file_date < cutoff_date, with cutoff_date = now - days_old: the videos of
\* a listing with their modification times that the sweep takes for old
older_or_as_old(mtimes, t, days) == {m[1] : m \in {x \in mtimes : x[2] <= t - days}}

older_than(mtimes, t, days) == {m[1] : m \in {x \in mtimes : x[2] < t - days}}

\* two reels, each with or without its sidecar, posted or not
InitSweep ==
    /\ downloaded_content = [EmptyDownloaded EXCEPT !.video_ids = <<Str(1), Str(12)>>]
    /\ disk_downloaded = OnDisk(downloaded_content)
    /\ \E videos \in {<<>>} \cup {<<a>> : a \in PostedBefore} :
           posted_content = [EmptyPosted EXCEPT !.videos = videos]
    /\ disk_posted = OnDisk(posted_content)
    /\ \E sidecars \in SUBSET {WithSuffix(f, JsonExt) : f \in OldReels} :
           files = OldReels \cup sidecars
    /\ session = FALSE
    /\ testing_mode = FALSE
    /\ now = LongAfter
    /\ last = NoCall
    /\ fetch = NoFetch
    /\ routine = NoRoutine

\* cleanup_old_downloads with the modification times the file system
\* reports for the videos: 8, 7 and 6 days before now
SweepTried(mtimes, metaStuck, videoStuck, io) ==
    \E old \in {older_than(mtimes, now, SweepDays)} :
    \E r \in {cleanup_old_downloads(downloaded_content, disk_downloaded, files,
                                     old, metaStuck, videoStuck, now, io)} :
       /\ metaStuck \subseteq {f \in old : WithSuffix(f, JsonExt) \in files}
       /\ videoStuck \subseteq old
       /\ downloaded_content' = r.dc
       /\ disk_downloaded' = r.disk
       /\ files' = r.fs
       /\ last' = [NoCall EXCEPT !.op = "sweep", !.fault = FaultKind(io),
                                 !.arg = <<metaStuck, videoStuck>>,
                                 !.out = <<mtimes>>]
       /\ UNCHANGED <<fetch, routine, posted_content, disk_posted, session,
                      testing_mode, now>>

SweepOnce ==
    /\ last.op = "none"
    /\ \E age \in [{g \in files : Suffix(g) = Mp4Ext} ->
                       {SweepDays - 1, SweepDays, SweepDays + 1}],
          metaStuck \in SUBSET files, videoStuck \in SUBSET files,
          io \in IoOutcomes :
          SweepTried({<<f, now - age[f]>> : f \in DOMAIN age},
                     metaStuck, videoStuck, io)

NextSweep == SweepOnce

SpecSweep == InitSweep /\ [][NextSweep]_vars

\* ------------------------------------------------------------------- claims
Ledger == downloaded_content.video_ids

\* C1: track_downloaded_video called a second time in a row with the same id
\* changes neither the ledger nor the document on disk, and the ledger then
\* holds the id exactly once.
TrackIdempotent ==
    [][(last'.op = "track" /\ last'.again) =>
          /\ downloaded_content' = downloaded_content
          /\ disk_downloaded' = disk_downloaded
          /\ Count(Str(last'.pk), downloaded_content'.video_ids) = 1]_vars

TrackedTwiceInARow ==
    /\ last.op = "track" /\ last.again /\ last.branch = "already"
    /\ Count(Str(last.pk), Ledger) = 1

\* C2: filled from empty with the distinct ids 1, 2, ..., N the ledger never
\* holds more than 1000 ids, and it holds the most recent min(N, 1000) of them
\* in insertion order: past 1000, exactly the ids N-999 .. N.
LedgerKeepsMostRecent ==
    /\ Len(Ledger) <= LedgerCap
    /\ last.op = "track" =>
          LET n == last.pk
              kept == IF n > LedgerCap THEN LedgerCap ELSE n
          IN Ledger = [i \in 1..kept |-> Str(n - kept + i)]

LedgerOverflowed ==
    /\ last.op = "track" /\ last.pk > LedgerCap
    /\ Len(Ledger) = LedgerCap
    /\ Ledger[1] = Str(last.pk - LedgerCap + 1)

\* C3: no identifier appears twice in the downloaded-content ledger, in
\* memory or in the document on disk.
LedgerHasNoDuplicates ==
    /\ NoDup(Ledger)
    /\ disk_downloaded.readable => NoDup(disk_downloaded.doc.video_ids)

BackFilledBesideOthers ==
    /\ last.op = "isdup" /\ last.layer >= 2 /\ last.ret = "True"
    /\ Len(Ledger) >= 2

\* C4 as claimed: whenever is_video_already_downloaded matches on a layer
\* other than ledger membership it returns True and the ledger then holds
\* the id.
MatchReturnsTrueAndBackFills ==
    (last.op = "isdup" /\ last.layer >= 2) =>
        (last.ret = "True" /\ IsTracked(downloaded_content, Str(last.pk)))

\* C4 as amended: after a match on a layer other than ledger membership the
\* ledger in memory holds the id and the next check of it is answered True
\* by ledger membership whatever fails then; the matching call itself returns
\* True exactly when the save of the back-fill succeeded (the document on
\* disk then holds the id too), and False when that save raised.
MatchBackFillsAndReturnsTrueIfSaved ==
    (last.op = "isdup" /\ last.layer >= 2) =>
        /\ IsTracked(downloaded_content, Str(last.pk))
        /\ \A fault \in DupFaults :
              LET again == is_video_already_downloaded(
                               downloaded_content, disk_downloaded,
                               posted_content, files, last.pk, fault)
              IN again.ret = "True" /\ again.layer = 1
        /\ last.ret = "True" <=> last.fault = "ok"
        /\ last.ret = "True" =>
              /\ disk_downloaded.readable
              /\ IsTracked(disk_downloaded.doc, Str(last.pk))
        /\ last.ret = "False" => last.fault = "save"

\* the id is found only as the name of a sidecar, and is back-filled
SidecarOnlyMatch ==
    /\ last.op = "isdup" /\ last.layer = 3 /\ last.ret = "True"
    /\ ~Layer2(files, Str(last.pk))
    /\ IsTracked(downloaded_content, Str(last.pk))

\* C5: when the id is not in the ledger, no name in downloads/videos contains
\* it and no posted video path contains it, is_video_already_downloaded
\* returns False and changes neither ledger, nor posted content, nor the
\* directory.
NoMatchLeavesAllUnchanged ==
    [][(/\ last'.op = "isdup"
        /\ ~IsTracked(downloaded_content, Str(last'.pk))
        /\ \A f \in files : ~Contains(f, Str(last'.pk))
        /\ ~Layer4(posted_content, Str(last'.pk))) =>
          /\ last'.ret = "False"
          /\ UNCHANGED <<downloaded_content, disk_downloaded, posted_content,
                         disk_posted, files>>]_vars

UnknownIdBesideOtherFiles ==
    /\ last.op = "isdup" /\ last.ret = "False" /\ last.fault = "ok"
    /\ ~IsTracked(downloaded_content, Str(last.pk))
    /\ \A f \in files : ~Contains(f, Str(last.pk))
    /\ ~Layer4(posted_content, Str(last.pk))
    /\ files # {}

\* C6: when an I/O error happens inside is_video_already_downloaded, in a
\* directory listing or in the save of a back-fill, the call does not raise
\* and returns False.
IoErrorFailsOpen ==
    (last.op = "isdup" /\ last.fault # "ok") =>
        (last.ret = "False" /\ ~last.raised)

BackFillSaveFailed ==
    /\ last.op = "isdup" /\ last.fault = "save" /\ last.layer >= 2
    /\ last.ret = "False" /\ ~last.raised

\* the upload calls among the client calls of the last post_content
UploadCalls == SelectSeq(last.calls, LAMBDA c : c.call # "login")

\* C7: in testing mode post_content returns True, calls neither login nor an
\* upload, and leaves the posted content in memory and on disk as it was.
DryRunPostsNothing ==
    [][(last'.op = "post" /\ testing_mode) =>
          /\ last'.ret = "True"
          /\ last'.calls = <<>>
          /\ UNCHANGED <<posted_content, disk_posted, session, files>>]_vars

DryRunPosted ==
    /\ last.op = "post" /\ testing_mode /\ last.ret = "True"
    /\ Suffix(last.file) \in VideoExts

\* C8: in live mode post_content returns True only when exactly one record
\* for the file was appended to 'images' for an image extension and to
\* 'videos' otherwise, the other sequence kept, and the result saved; when
\* no upload went through it returns False and the posted content in memory
\* and on disk is unchanged.
LivePostRecordsOnce ==
    [][(last'.op = "post" /\ ~testing_mode) =>
          LET path == last'.file
              kind == IF Suffix(path) \in ImageExts THEN "images" ELSE "videos"
              other == IF kind = "images" THEN "videos" ELSE "images"
              uploaded == \E i \in 1..Len(last'.calls) :
                              last'.calls[i].call # "login" /\ last'.calls[i].ok
          IN /\ last'.ret = "True" =>
                  /\ \E c \in Captions :
                        posted_content'[kind] =
                            Append(posted_content[kind], PostedRecord(path, c, now))
                  /\ posted_content'[other] = posted_content[other]
                  /\ disk_posted' = OnDisk(posted_content')
             /\ ~uploaded =>
                  /\ last'.ret = "False"
                  /\ UNCHANGED <<posted_content, disk_posted>>]_vars

LivePostedImage ==
    /\ last.op = "post" /\ ~testing_mode /\ last.ret = "True"
    /\ Len(posted_content.images) >= 1
    /\ posted_content.images[Len(posted_content.images)].file = last.file
    /\ disk_posted = OnDisk(posted_content)

LoginBeforeUpload ==
    [][(last'.op = "post" /\ ~testing_mode) =>
          LET calls == last'.calls
              logins == {i \in 1..Len(calls) : calls[i].call = "login"}
              uploads == {i \in 1..Len(calls) : calls[i].call # "login"}
          IN /\ logins = IF session THEN {} ELSE {1}
             /\ uploads # {} => (session \/ calls[1].ok) /\ session'
             /\ (~session /\ ~calls[1].ok) =>
                   /\ uploads = {}
                   /\ last'.ret = "False"
                   /\ UNCHANGED <<posted_content, disk_posted>>]_vars

LoginFailedNoUpload ==
    /\ last.op = "post" /\ ~testing_mode /\ ~session
    /\ last.calls = <<Call("login", FALSE)>> /\ last.ret = "False"
FilterKeepsUnposted ==
    [][last'.op = "filter" =>
          LET days(rec) == {d \in 0..now : rec.posted_at = isoformat(d)}
              excluded(v) ==
                  \E i \in 1..Len(posted_content.videos) :
                      LET rec == posted_content.videos[i]
                      IN /\ BaseName(rec.file) = BaseName(v)
                         /\ \/ days(rec) = {}
                            \/ \E d \in days(rec) : now - d < 7
          IN /\ last'.out = SelectSeq(last'.arg, LAMBDA v : ~excluded(v))
             /\ UNCHANGED <<posted_content, disk_posted, downloaded_content,
                            disk_downloaded>>]_vars

\* one reel posted 3 days ago, the other 10 days ago: the second is returned
ThreeAndTenDaysAgo ==
    /\ last.op = "filter"
    /\ last.arg = <<DownloadPath(FinalName(1, 1)), DownloadPath(FinalName(12, 1))>>
    /\ Len(posted_content.videos) = 2
    /\ posted_content.videos[1].file = DownloadPath(FinalName(1, 1))
    /\ posted_content.videos[1].posted_at = isoformat(now - 3)
    /\ posted_content.videos[2].file = DownloadPath(FinalName(12, 1))
    /\ posted_content.videos[2].posted_at = isoformat(now - 10)
    /\ last.out = <<DownloadPath(FinalName(12, 1))>>

\* an attempt whose fetched file is missing, smaller than 50 KB, without a
\* signature in its first 1 KB or shorter than its reported size, or whose
\* file has another size after the rename
FailsValidation(a) ==
    /\ a.dl = "returns"
    /\ \/ ~a.file.exists
       \/ a.file.size < 50 * 1024
       \/ a.file.sig < 0 \/ a.file.sig + 4 > 1024
       \/ a.file.actual # a.file.size
       \/ a.rename = "corrupt"

AcceptedFile == last.arg[last.n].file

\* C15 as claimed: the attempt that ends the loop fetched a file that
\* exists, has between 50 KB and 100 MB, shows a signature in its first
\* 1 KB and is as long as its reported size.
AcceptedFileWithinSizeRange ==
    (last.op = "download" /\ last.branch # "exhausted") =>
        /\ AcceptedFile.exists
        /\ AcceptedFile.size >= 50 * 1024
        /\ AcceptedFile.size <= 100 * 1024 * 1024
        /\ AcceptedFile.sig >= 0 /\ AcceptedFile.sig + 4 <= 1024
        /\ AcceptedFile.actual = AcceptedFile.size

\* C15 amended: the attempt that ends the loop fetched a file that exists,
\* has at least 50 KB, shows a signature in its first 1 KB and is as long
\* as its reported size, and it is the first attempt with such a file whose
\* rename worked; a file of more than 100 MB is accepted too.
AcceptedFileIsValid ==
    last.op = "download" =>
        LET valid(a) == /\ a.dl = "returns"
                        /\ a.file.exists
                        /\ a.file.size >= 50 * 1024
                        /\ a.file.sig >= 0 /\ a.file.sig + 4 <= 1024
                        /\ a.file.actual = a.file.size
            passes(k) == valid(last.arg[k]) /\ last.arg[k].rename = "ok"
        IN /\ last.branch # "exhausted" =>
                  passes(last.n) /\ \A k \in 1..(last.n - 1) : ~passes(k)
           /\ last.branch = "exhausted" => \A k \in 1..3 : ~passes(k)

\* a file of more than 100 MB accepted at the third attempt
LargeFileAccepted ==
    /\ last.op = "download" /\ last.ret = "path" /\ last.n = 3
    /\ AcceptedFile.size > 100 * 1024 * 1024
    /\ FinalName(last.pk, 1) \in files

\* a step of the fetch that started a download
DownloadStarted == last'.op = "candidate" /\ last'.ret \in {"path", "None"}

\* C12: a fetch asked for N videos returns at most N paths, and it starts
\* a download only while it holds fewer than N.
FetchWithinLimit ==
    [][/\ last'.op = "fetch" => Len(last'.out) <= last'.n
       /\ Len(fetch'.got) <= fetch'.max
       /\ DownloadStarted => Len(fetch.got) < fetch.max]_vars

\* a fetch asked for one video that downloaded the better of two candidates
\* and left the other alone
SecondCandidateLeftAlone ==
    /\ fetch.pc = "done" /\ fetch.max = 1 /\ Len(fetch.got) = 1
    /\ Len(fetch.cands) = 2 /\ fetch.j = 2
    /\ fetch.cands[1].media.pk # fetch.cands[2].media.pk

\* C13: every media the fetch starts to download is a video with at least
\* 1000 likes or at least 20 comments for which the duplicate check right
\* before answered False, and no media pk is downloaded twice in one fetch.
OnlyFreshPopularVideos ==
    [][/\ DownloadStarted =>
             /\ last'.arg[1].media_type = 2
             /\ last'.arg[1].like_count >= 1000 \/ last'.arg[1].comment_count >= 20
             /\ last'.calls = <<Call("is_video_already_downloaded", FALSE)>>
       /\ NoDup(fetch'.pks)]_vars

\* the media listed twice under a hashtag, downloaded once and skipped the
\* second time
ListedTwiceDownloadedOnce ==
    /\ last.op = "candidate" /\ last.ret = "skipped"
    /\ fetch.max = 2 /\ fetch.pks = <<last.pk>>
    /\ Len(fetch.cands) = 2 /\ fetch.cands[1] = fetch.cands[2]

\* ------------------------------------------------------------- the routine
\* the quota of a run
Quota == IF testing_mode THEN 1 ELSE 2

\* the tiers B and C posts of the run, the posts that succeeded, and the
\* videos handed to post_content in tiers B and C
TierPosts(tier) == SelectSeq(routine.handed, LAMBDA h : h.tier = tier)

Succeeded(h) == SelectSeq(h, LAMBDA e : e.ok)

RECURSIVE Paths(_)
Paths(h) == IF h = <<>> THEN <<>> ELSE <<h[1].path>> \o Paths(Tail(h))

HandedVideos == Paths(SelectSeq(routine.handed, LAMBDA h : h.tier # "user"))

\* C16: in every state of a run of the routine, the posts counted as
\* successful are at most the quota: 1 in testing mode, 2 otherwise
QuotaNeverExceeded ==
    /\ routine.content_posted <= Quota
    /\ Len(Succeeded(routine.handed)) <= Quota

\* three user files were found, two of them were posted, and the run ended
ThreeUserFilesTwoPosted ==
    /\ routine.pc = "end" /\ ~testing_mode
    /\ routine.scanned = 3
    /\ routine.content_posted = 2

\* C17: every fetch of a run begins while quota remains after the user
\* tier, and asks for min(remaining, 1) videos; a post of the fallback tier
\* comes after the fetch tier and while quota still remains; when the user
\* files meet the quota, the run fetches nothing and posts no other file
TiersInOrder ==
    /\ \A i \in DOMAIN routine.fetched :
          LET e == routine.fetched[i]
              remaining == routine.target_posts - e.content_posted
          IN /\ e.content_posted = Len(Succeeded(TierPosts("user")))
             /\ remaining > 0
             /\ e.max = IF remaining < 1 THEN remaining ELSE 1
    /\ \A i \in DOMAIN routine.handed :
          /\ routine.handed[i].tier # "user" =>
                /\ routine.fetched # <<>>
                /\ \A k \in i..Len(routine.handed) : routine.handed[k].tier # "user"
          /\ routine.handed[i].tier = "fallback" =>
                /\ Len(Succeeded(SubSeq(routine.handed, 1, i - 1)))
                       < routine.target_posts
                /\ \A k \in i..Len(routine.handed) :
                       routine.handed[k].tier = "fallback"
                /\ routine.pc \notin {"fetch", "fetching", "reels", "reel_cleanup"}
    /\ (routine.pc # "idle"
          /\ Len(Succeeded(TierPosts("user"))) >= routine.target_posts) =>
          /\ routine.fetched = <<>>
          /\ TierPosts("fetch") = <<>> /\ TierPosts("fallback") = <<>>

\* one user file was posted, the fetch that followed asked for one video
\* and brought one, whose post failed, and an existing video was posted
AllThreeTiersUsed ==
    /\ routine.pc = "end"
    /\ Len(Succeeded(TierPosts("user"))) = 1
    /\ routine.fetched # <<>>
    /\ routine.fetched[1] = [max |-> 1, content_posted |-> 1]
    /\ TierPosts("fetch") # <<>>
    /\ TierPosts("fallback") # <<>>

\* C18: every video the routine hands to post_content in the fetch tier
\* and in the fallback tier is handed to cleanup_posted_viral_reel
\* afterwards, after a post that returned True and after one that returned
\* False
CleanupFollowsEveryPost ==
    /\ [](IF routine.pending = <<>>
          THEN routine.cleaned = HandedVideos
          ELSE HandedVideos = Append(routine.cleaned, routine.pending[1]))
    /\ (routine.pending # <<>>) ~> (routine.pending = <<>>)

\* the post of a downloaded video failed and the video was cleaned up
FailedPostCleanedUp ==
    /\ routine.pc = "end"
    /\ \E i \in DOMAIN routine.handed :
          /\ routine.handed[i].tier = "fetch"
          /\ ~routine.handed[i].ok
          /\ InList(routine.handed[i].path, routine.cleaned)

\* the run of the scenario: quota 2, one user file, three fetches that
\* brought nothing, two existing videos never posted, every post a success
OneUserFileNoFetchTwoExisting ==
    /\ routine.pc = "end" /\ ~testing_mode
    /\ routine.scanned = 1
    /\ Len(routine.fetched) = MaxRetries
    /\ TierPosts("fetch") = <<>>
    /\ Len(routine.existing_videos) = 2
    /\ Len(posted_content.images) + Len(posted_content.videos)
          = Len(routine.handed)
    /\ Succeeded(routine.handed) = routine.handed

\* C19 as stated: in the scenario the run posts one user file and one
\* existing video, counts 2 posts, and makes two clean-up calls in the
\* fallback tier
ScenarioTwoCleanups ==
    OneUserFileNoFetchTwoExisting =>
        /\ Len(TierPosts("user")) = 1
        /\ Len(TierPosts("fallback")) = 1
        /\ routine.content_posted = 2
        /\ Len(routine.cleaned) = 2

\* C19, amended: in the scenario the run posts one user file and the first
\* existing video the filter let through, counts 2 posts, and makes one
\* clean-up call in the fallback tier, for the video it posted; the other
\* existing video is neither posted nor cleaned up
ScenarioOneCleanup ==
    OneUserFileNoFetchTwoExisting =>
        /\ Len(TierPosts("user")) = 1
        /\ Len(TierPosts("fallback")) = 1
        /\ routine.content_posted = 2
        /\ routine.cleaned = <<routine.existing_videos[1]>>
        /\ TierPosts("fallback")[1].path = routine.existing_videos[1]
        /\ BaseName(routine.existing_videos[2]) \in files

\* the run of the scenario ended with the posted video deleted
ScenarioRunEnded ==
    /\ OneUserFileNoFetchTwoExisting
    /\ BaseName(routine.existing_videos[1]) \notin files

\* ------------------------------------------------------------- the clean-up
\* the three files of the video a clean-up was called for
CleanedFiles ==
    <<BaseName(last.file), WithSuffix(BaseName(last.file), JsonExt),
      WithSuffix(BaseName(last.file), JpgExt)>>

\* what safe_delete_file did for the i-th of them under the course of its
\* unlink calls: at most 3 unlinks, and after the k-th locked one 2k seconds
LockedFileRetried(i) ==
    LET try == last.out[i]
        out == last.arg[i]
    IN /\ try.n <= 3
       /\ out = "locked_once" => try.n = 2 /\ try.sleeps = <<2>> /\ try.ok
       /\ out = "locked_twice" => try.n = 3 /\ try.sleeps = <<2, 4>> /\ try.ok
       /\ out = "locked_always" => try.n = 3 /\ try.sleeps = <<2, 4, 6>> /\ ~try.ok
       /\ try.ok => CleanedFiles[i] \notin files

\* C21 as stated: a clean-up unlinks a locked file at most 3 times and
\* waits 2, 4 and 6 seconds after the 1st, 2nd and 3rd locked attempt; when
\* the lock on the video is released before the attempts are used up, the
\* video is deleted and the clean-up returns True
ReleasedLockMeansTrue ==
    last.op = "cleanup" =>
        /\ \A i \in 1..3 : LockedFileRetried(i)
        /\ last.arg[1] \in {"locked_once", "locked_twice"} =>
               CleanedFiles[1] \notin files /\ last.ret = "True"

\* C21, amended: the same retries and waits; when the lock on the video is
\* released before the attempts are used up, the video is deleted, and the
\* clean-up returns True unless the deletion of the sidecar failed
ReleasedLockMeansDeleted ==
    last.op = "cleanup" =>
        /\ \A i \in 1..3 : LockedFileRetried(i)
        /\ last.arg[1] \in {"locked_once", "locked_twice"} =>
               /\ CleanedFiles[1] \notin files
               /\ last.ret = "True" <=> CleanedFiles[2] \notin files

\* the video was locked at the first attempt and deleted at the second
DeletedAtSecondAttempt ==
    /\ last.op = "cleanup" /\ last.ret = "True"
    /\ last.arg[1] = "locked_once"
    /\ last.out[1] = [ok |-> TRUE, n |-> 2, sleeps |-> <<2>>]
    /\ CleanedFiles[1] \notin files

\* the courses of the unlink calls that end with the file deleted
Deleting == {"ok", "locked_once", "locked_twice", "oserror_once"}

\* C22: a clean-up returns False exactly when the video or its sidecar is
\* still there afterwards; a thumbnail that could not be deleted leaves the
\* result True; after a failed deletion of the video the sidecar and the
\* thumbnail are still tried; after True neither video nor sidecar exists
CleanupResult ==
    last.op = "cleanup" =>
        /\ ~last.raised /\ last.ret \in {"True", "False"}
        /\ last.ret = "False" <=>
               (CleanedFiles[1] \in files \/ CleanedFiles[2] \in files)
        /\ (CleanedFiles[3] \in files /\ CleanedFiles[1] \notin files
              /\ CleanedFiles[2] \notin files) => last.ret = "True"
        /\ CleanedFiles[1] \in files =>
               \A i \in 2..3 :
                  IF last.arg[i] \in Deleting
                  THEN CleanedFiles[i] \notin files
                  ELSE last.out[i].n >= 1
        /\ last.ret = "True" =>
               CleanedFiles[1] \notin files /\ CleanedFiles[2] \notin files

\* the deletion of the video was refused, the sidecar and the thumbnail
\* were deleted all the same, and the clean-up returned False
SidecarDeletedAfterVideoStayed ==
    /\ last.op = "cleanup" /\ last.ret = "False"
    /\ last.arg[1] = "denied"
    /\ CleanedFiles[1] \in files
    /\ last.out[2].n = 1 /\ last.out[3].n = 1
    /\ CleanedFiles[2] \notin files /\ CleanedFiles[3] \notin files

\* ------------------------------------------------------- the rate-limit handler
RECURSIVE SumSeq(_)
SumSeq(q) == IF q = <<>> THEN 0 ELSE q[1] + SumSeq(Tail(q))

\* C27 as stated: the handler sleeps 30 * 2^(attempt - 1) seconds in all,
\* and no single sleep is longer than 30 seconds
SleepsInPiecesOfThirty ==
    last.op = "rate_limit_handler" =>
        /\ SumSeq(last.out) = 30 * Pow2(last.n - 1)
        /\ \A i \in DOMAIN last.out : last.out[i] <= 30

\* C27, amended: the handler sleeps 30 * 2^(attempt - 1) seconds in all; no
\* single sleep is longer than 30 seconds, except that the 60 seconds of
\* attempt 2 are one sleep
SleepsInPiecesAboveSixty ==
    last.op = "rate_limit_handler" =>
        /\ SumSeq(last.out) = 30 * Pow2(last.n - 1)
        /\ last.n = 2 => last.out = <<60>>
        /\ last.n # 2 => \A i \in DOMAIN last.out : last.out[i] <= 30

\* the handler was called for attempt 3 and slept four times 30 seconds
SleptTwoMinutes ==
    /\ last.op = "rate_limit_handler" /\ last.n = 3
    /\ SubSeq(last.out, 1, 4) = <<30, 30, 30, 30>>
    /\ SumSeq(last.out) = 120

\* C28: the handler logs in again exactly when attempt >= 2, and after its
\* sleeps; it returns False exactly when that login failed; on attempt 1 it
\* returns True and makes no login call
ReloginFromSecondAttempt ==
    last.op = "rate_limit_handler" =>
        LET logins == {i \in DOMAIN last.calls : last.calls[i].call = "login"}
        IN /\ Cardinality(logins) = IF last.n >= 2 THEN 1 ELSE 0
           /\ \A i \in logins :
                 /\ i = Len(last.calls)
                 /\ i = Len(last.out) + 1
           /\ last.ret = "False" <=>
                 \E i \in logins : ~last.calls[i].ok
           /\ last.n = 1 => last.ret = "True" /\ logins = {}

\* the handler was called for attempt 2, slept, logged in again without
\* success and returned False
ReloginFailed ==
    /\ last.op = "rate_limit_handler" /\ last.n = 2 /\ last.ret = "False"
    /\ last.calls = <<Call("sleep", TRUE), Call("login", FALSE)>>

\* ------------------------------------------------- errors of a hashtag search
\* C29: an exception of a hashtag search that speaks of the login leads to
\* one login_instagram call; when it fails the fetch is over, with no
\* further search and no further download, and when it succeeds the fetch
\* goes on with the next hashtag; an exception that speaks of a rate limit
\* leads to a call of the handler before the next hashtag is searched
ErrorsOfASearch ==
    [][(fetch.pc = "hashtag" /\ last'.op = "hashtag") =>
         /\ last'.branch = "auth" =>
               /\ Len(last'.calls) = 1 /\ last'.calls[1].call = "login"
               /\ fetch'.got = fetch.got
               /\ IF last'.calls[1].ok
                  THEN fetch'.pc = "hashtag" /\ fetch'.tags = fetch.tags - 1
                  ELSE fetch'.pc = "done"
         /\ last'.branch = "rate_limit" =>
               /\ last'.calls[1].call = "enhanced_rate_limit_handler"
               /\ Len(SelectSeq(last'.calls,
                       LAMBDA c : c.call = "enhanced_rate_limit_handler")) = 1
               /\ fetch'.pc = "hashtag" /\ fetch'.tags = fetch.tags - 1
         /\ fetch.pc = "done" => fetch'.pc \in {"done", "idle"}]_vars

\* the login after an authentication error failed while hashtags were left
\* to search, and the fetch was over
FetchAbortedAfterLogin ==
    /\ last.op = "hashtag" /\ last.branch = "auth"
    /\ last.calls = <<Call("login", FALSE)>>
    /\ fetch.pc = "done" /\ fetch.tags > 1

\* ------------------------------------------------- the candidates of a hashtag
\* C30: of the candidates of a hashtag at most 2 are tried, in descending
\* order of like_count + 10 * comment_count: a candidate is tried only when
\* at most one candidate of the hashtag that scores as high or higher comes
\* before it
TopTwoByScore ==
    [][(fetch.pc = "download" /\ last'.op = "candidate") =>
         /\ fetch.j <= 2
         /\ \E p \in DOMAIN fetch.cands :
               /\ fetch.cands[p].media = last'.arg[1]
               /\ fetch.cands[p].score
                     = OrZero(last'.arg[1].like_count)
                       + 10 * OrZero(last'.arg[1].comment_count)
               /\ p = fetch.j
               /\ \A q \in DOMAIN fetch.cands :
                     IF q < p THEN fetch.cands[q].score >= fetch.cands[p].score
                     ELSE fetch.cands[q].score <= fetch.cands[p].score
               /\ Cardinality({q \in DOMAIN fetch.cands : q < p}) <= 1]_vars

\* of three candidates found with the best one last and the other two
\* scoring the same, the best and the first of the two were tried, both
\* downloads failed, and the third was left
ThirdCandidateLeft ==
    /\ last.op = "candidate" /\ last.ret = "None" /\ last.arg = <<ReelA>>
    /\ fetch.pc = "download" /\ fetch.j = 3 /\ fetch.got = <<>>
    /\ Len(fetch.cands) = 3
    /\ fetch.medias = <<ReelA, ReelD, ReelC>>

\* ------------------------------------------------------ the retries of a fetch
\* C25: fetch_viral_cat_reels_with_retry calls the fetch at most 3 times,
\* stops at the first fetch that brings videos and returns them, at most
\* max_downloads of them, and after the k-th fetch that brought nothing it
\* waits 60 * k seconds, for k = 1, 2, 3
WaitsAfterEveryEmptyFetch ==
    /\ Len(routine.fetched) <= 3
    /\ routine.pc \in {"fetch", "fetching"} =>
          Len(routine.fetched) = routine.retry_attempt
              + (IF routine.pc = "fetching" THEN 1 ELSE 0)
    /\ routine.pc = "reels" /\ last.op = "fetch" =>
          /\ routine.todo = last.out /\ last.out # <<>>
          /\ Len(last.out) <= last.n
          /\ Len(routine.fetched) = routine.retry_attempt + 1
    /\ routine.waits = [k \in 1..routine.retry_attempt |-> 60 * k]

\* C26: when a search raises a rate-limit error during the k-th fetch of
\* fetch_viral_cat_reels_with_retry, the handler is called with attempt k,
\* so that from the 2nd fetch on it sleeps 60 seconds or more and logs in
\* again
HandlerGetsOuterAttempt ==
    (routine.pc = "fetching" /\ last.op = "hashtag" /\ last.branch = "rate_limit") =>
        /\ last.n = routine.retry_attempt + 1
        /\ routine.retry_attempt + 1 >= 2 =>
              /\ SumSeq(last.out) >= 60
              /\ \E i \in DOMAIN last.calls : last.calls[i].call = "login"

\* ------------------------------------------------------ overlapping invocations
\* whether a posted record is in the persisted document
Persisted(rec) ==
    \/ InList(rec, load_posted_content(disk_posted).images)
    \/ InList(rec, load_posted_content(disk_posted).videos)

\* C24: the documents are read once and written as a whole, without a
\* lock: when a routine saves a post after another process saved one during
\* its run, the record of the other process is gone from the persisted
\* document (a lost update)
OverlapLosesUpdate ==
    [][(last'.op = "post" /\ last'.ret = "True" /\ routine.peer # <<>>) =>
         /\ disk_posted'.doc = posted_content'
         /\ \A i \in DOMAIN routine.peer :
               ~InList(routine.peer[i], disk_posted'.doc.images)
               /\ ~InList(routine.peer[i], disk_posted'.doc.videos)]_vars

\* both invocations are over, both posted the same user file, and the
\* record of the other process is missing from the persisted document while
\* the record of this one is there
PeerRecordLost ==
    /\ routine.pc = "end"
    /\ routine.peer # <<>> /\ ~Persisted(routine.peer[1])
    /\ \E i \in DOMAIN routine.handed :
          /\ routine.handed[i].ok
          /\ routine.handed[i].path = routine.peer[1].file
          /\ \E k \in DOMAIN disk_posted.doc.images :
                disk_posted.doc.images[k].file = routine.handed[i].path

\* ------------------------------------------------------------- termination
\* C23: a run of the routine is one pass that ends: no failure of a login, a
\* fetch, a download, a caption, an upload, a save of the ledger or a
\* clean-up leaves the routine as an exception, and every run that began
\* reaches its end
RunAlwaysEnds ==
    /\ [](routine.pc # "raised")
    /\ (routine.pc # "idle") ~> (routine.pc = "end")

\* a run ended in which nothing was posted: the post of a user file
\* failed, every fetch came back empty, and the post of an existing video
\* failed too
RunEndedAfterFailures ==
    /\ routine.pc = "end"
    /\ routine.content_posted = 0
    /\ routine.retry_attempt = MaxRetries
    /\ \E i, j \in DOMAIN routine.handed :
          /\ routine.handed[i].tier = "user" /\ ~routine.handed[i].ok
          /\ routine.handed[j].tier = "fallback" /\ ~routine.handed[j].ok

\* ----------------------------------------------------- the time budget
\* C31: once a check of a fetch found the time budget spent, that fetch
\* searches no further hashtag and starts no further download (a download
\* under way is the only thing that runs past the budget), and the list of
\* a fetch grows by a download of a candidate only, so that a fetch without
\* candidates returns the empty list
NothingStartedAfterBudget ==
    [][
        /\ (fetch.late /\ fetch'.pc # "idle") =>
             /\ fetch'.late
             /\ ~(last'.op = "hashtag" /\ last'.branch # "stop")
             /\ ~(last'.op = "candidate" /\ last'.ret # "skipped")
             /\ fetch'.got = fetch.got
        /\ (fetch'.pc # "idle" /\ fetch'.got # fetch.got) =>
             /\ last'.op = "candidate" /\ last'.ret = "path"
             /\ fetch.j \in DOMAIN fetch.cands
        /\ (last'.op = "fetch_begin") => (fetch'.got = <<>>)
        /\ (last'.op = "fetch") => (last'.out = fetch.got /\ ~last'.raised)
    ]_vars

\* the budget was found spent after one download, with hashtags left to
\* search and fewer videos downloaded than asked for: the fetch ended there
BudgetSpentBeforeLastHashtag ==
    /\ fetch.pc = "done" /\ fetch.late
    /\ last.op = "hashtag" /\ last.branch = "stop"
    /\ fetch.tags > 0 /\ Len(fetch.got) = 1 /\ fetch.max = 2

\* ------------------------------------------------------ the download backoff
\* the attempts of the last download that failed
FailedAttempts == IF last.branch = "exhausted" THEN last.n ELSE last.n - 1

\* C32: a download makes at most 3 attempts, and after each attempt k that
\* failed, the third included, it waits min(5 * 2^(k-1), 30) seconds: 5,
\* 10 and 20
WaitsAfterEveryFailedAttempt ==
    last.op = "download" =>
        /\ last.n <= MaxDownloadAttempts
        /\ last.out = [k \in 1..FailedAttempts |-> retry_delay(k)]

\* ------------------------------------------------------------- the sweep
\* the videos of the sweep whose modification time is more than SweepDays
\* days ago, and the sidecar of a video
SweptOld == {m[1] : m \in {x \in last'.out[1] : now - x[2] > SweepDays}}
Sidecar(f) == WithSuffix(f, JsonExt)
\* the videos the sweep finds that are not that old
Kept == {g \in files \ SweptOld : Suffix(g) = Mp4Ext}

\* C33: the sweep removes every video whose modification time is older
\* than the threshold, and its sidecar, posted or not, leaves every newer
\* video and its sidecar in place, sets last_cleanup and leaves the ids of
\* the ledger as they were
SweepRemovesEveryOldVideo ==
    [][last'.op = "sweep" =>
          /\ \A f \in SweptOld : f \notin files' /\ Sidecar(f) \notin files'
          /\ \A f \in files \ SweptOld :
                 (Suffix(f) = Mp4Ext \/ \E g \in Kept : f = Sidecar(g))
                     => f \in files'
          /\ downloaded_content'.last_cleanup = isoformat(now)
          /\ downloaded_content'.video_ids = downloaded_content.video_ids]_vars

\* C33, amended: the sweep removes every old video whose unlink and whose
\* sidecar's unlink do not fail, and its sidecar; of an old video whose own
\* unlink fails only the sidecar goes, and an old video whose sidecar's
\* unlink fails stays with its sidecar; newer videos and their sidecars
\* stay; last_cleanup is set in memory, and on disk when the save works,
\* and the ids of the ledger stay as they were
SweepRemovesOldVideosItCanDelete ==
    [][last'.op = "sweep" =>
          LET metaStuck == last'.arg[1]
              videoStuck == last'.arg[2]
          IN /\ \A f \in SweptOld :
                    /\ f \in files' <=> (f \in metaStuck \/ f \in videoStuck)
                    /\ Sidecar(f) \in files' <=> f \in metaStuck
             /\ \A f \in files \ SweptOld :
                    (Suffix(f) = Mp4Ext \/ \E g \in Kept : f = Sidecar(g))
                        => f \in files'
             /\ files' \subseteq files
             /\ downloaded_content'.last_cleanup = isoformat(now)
             /\ downloaded_content'.video_ids = downloaded_content.video_ids
             /\ last'.fault = "ok" => disk_downloaded'.doc = downloaded_content'
             /\ UNCHANGED <<posted_content, disk_posted>>]_vars

\* a sweep removed a video modified 8 days ago that was never posted, with
\* its sidecar, and left one modified exactly 7 days ago
SweptOneKeptOne ==
    /\ last.op = "sweep"
    /\ posted_content.videos = <<>>
    /\ <<FinalName(1, 1), now - (SweepDays + 1)>> \in last.out[1]
    /\ <<FinalName(12, 1), now - SweepDays>> \in last.out[1]
    /\ files = {FinalName(12, 1), Sidecar(FinalName(12, 1))}
    /\ downloaded_content.last_cleanup = isoformat(now)

\* ------------------------------------------------------- the documents
\* whether a document on disk is missing or does not parse
Unusable(disk) == ~disk.exists \/ ~disk.readable

\* C34: a process that finds a document missing or malformed loads it as
\* the empty state, images and videos empty for the posted content, no ids
\* and no last_cleanup for the downloaded ledger, and raises nothing; a
\* document that parses is loaded as it is
UnusableDocumentLoadsEmpty ==
    [][last'.op = "restart" =>
          /\ ~last'.raised
          /\ posted_content' =
                IF Unusable(disk_posted)
                THEN [images |-> <<>>, videos |-> <<>>] ELSE disk_posted.doc
          /\ downloaded_content' =
                IF Unusable(disk_downloaded)
                THEN [video_ids |-> <<>>, last_cleanup |-> <<>>]
                ELSE disk_downloaded.doc
          /\ UNCHANGED <<disk_posted, disk_downloaded>>]_vars

\* a process started on a posted document cut short that had held a record
\* and on no ledger at all, and holds nothing
StartedOnGarbledAndMissing ==
    /\ last.op = "restart"
    /\ disk_posted.exists /\ ~disk_posted.readable
    /\ disk_posted.doc.videos # <<>>
    /\ ~disk_downloaded.exists
    /\ posted_content = EmptyPosted /\ downloaded_content = EmptyDownloaded

\* ------------------------------------------------------------ captions
\* C35: generating a caption never raises, and without an AI model or with
\* a call of the model that fails in whatever way, the caption is one of
\* the static captions: of fallback_caption for a user file, of
\* fallback_video_caption for a downloaded video
CaptionFallsBack ==
    last.op = "caption" =>
        /\ ~last.raised
        /\ (~last.arg[1] \/ last.arg[2] # "text") =>
              /\ last.out[1].kind =
                    IF InDownloads(last.file) THEN "fallback_video_caption"
                    ELSE "fallback_caption"
              /\ last.out[1].n \in
                    1..(IF InDownloads(last.file) THEN VideoFallbacks
                        ELSE ImageFallbacks)

\* with a model configured, its call raised for a user file and the last of
\* the static captions came back
ModelFailedFallbackCaption ==
    /\ last.op = "caption" /\ ~InDownloads(last.file)
    /\ last.arg = <<TRUE, "raises">>
    /\ last.out = <<fallback_caption(ImageFallbacks)>>

\* ------------------------------------------------------- posted again
\* whether no two records of a list are of the same path and less than
\* RecentDays days apart
NotTwiceInAWeek(recs) ==
    \A i, j \in DOMAIN recs :
        (i < j /\ recs[i].file = recs[j].file) =>
            fromisoformat(recs[j].posted_at).t
                - fromisoformat(recs[i].posted_at).t >= RecentDays

\* C36: over successive runs in live mode no path is posted with success
\* more than once within 7 days; a user file posted by one run is not
\* posted again by the next
NoPathPostedTwiceInAWeek ==
    ~testing_mode =>
        /\ NotTwiceInAWeek(posted_content.images)
        /\ NotTwiceInAWeek(posted_content.videos)
\* ------------------------------------------------ a reel downloaded again
\* the id of a reel no id tracked by TrackNext is equal to
ReelPk == 5 * LedgerCap
\* downloads of that reel that may succeed in one behaviour
MaxDownloadsOfReel == 2

\* fetch_viral_cat_reels_optimized, one candidate, as AttemptDownload; the
\* ids whose download succeeded are remembered in routine.downloaded, and
\* last.again tells whether this id was among them
DownloadAnew(pk, fault, run) ==
    \E c \in {is_video_already_downloaded(downloaded_content, disk_downloaded,
                                           posted_content, files, pk, fault)} :
     /\ c.fault = fault
     /\ c.ret = "False"
     /\ \E d \in {download_instagram_video(c.dc, c.disk, files, pk, now, now,
                                          run.attempts, run.after, run.unl, run.io)} :
       /\ Cardinality(d.fs) <= MaxFiles
       /\ downloaded_content' = d.dc
       /\ disk_downloaded' = d.disk
       /\ files' = d.fs
       /\ routine' = [routine EXCEPT
                         !.downloaded = IF d.path = <<>> THEN @ ELSE Append(@, pk)]
       /\ last' = [NoCall EXCEPT !.op = "download", !.pk = pk,
                                 !.ret = IF d.path = <<>> THEN "None" ELSE "path",
                                 !.branch = d.kind, !.fault = fault,
                                 !.again = InList(pk, routine.downloaded)]
       /\ UNCHANGED <<fetch, posted_content, disk_posted, session, testing_mode, now>>

\* the reel is fetched with the clock standing still; the download works
\* at once or fails in every attempt, and what it leaves is removed
DownloadReel ==
    /\ Len(routine.downloaded) < MaxDownloadsOfReel
    /\ \E fault \in {"ok", "glob_mp4"} :
           \E run \in {r \in DownloadRuns(files, ReelPk, now, now) :
                           r.after = "ok" /\ r.unl = "ok"} :
               DownloadAnew(ReelPk, fault, run)

\* post_content for a downloaded reel, live or dry-run, the record saved
\* whenever there is one
PostReel ==
    \E path \in {q \in Postable : InDownloads(q)} :
        \E run \in {r \in PlainPostRuns(testing_mode, session, path) : r.io = "ok"} :
            PostContent(path, "ai", run)

\* cleanup_posted_viral_reel for a downloaded reel: the video is deleted or
\* the deletion is refused
CleanupAfterPost ==
    \E path \in {q \in Postable : InDownloads(q)}, dv \in {"ok", "denied"} :
        CleanupReel(path, dv, "ok", "ok")

\* fetches of one reel, posts, cleanups, and the tracking of further ids
InitAgain == Init /\ downloaded_content = EmptyDownloaded
                  /\ posted_content = EmptyPosted /\ files = {}
\* further ids are tracked one after the other once the files of the reel
\* are gone, for as long as the ledger holds the id of the reel
TrackFurther ==
    /\ files = {}
    /\ InList(Str(ReelPk), downloaded_content.video_ids)
    /\ TrackNext

NextAgain == DownloadReel \/ PostReel \/ CleanupAfterPost \/ TrackFurther

SpecAgain == InitAgain /\ [][NextAgain]_vars

\* C37 (as stated): a media id whose download succeeded is never downloaded
\* again, whatever fetches, posts, cleanups and further trackings follow
NeverDownloadedAgain ==
    \A i, j \in 1..Len(routine.downloaded) :
        i # j => routine.downloaded[i] # routine.downloaded[j]

\* some file of downloads/videos or some posted video record carries the
\* id in its name
NamedSomewhere(pk) ==
    \/ Layer2(files, Str(pk)) \/ Layer3(files, Str(pk))
    \/ Layer4(posted_content, Str(pk)) \/ Layer5(files, Str(pk))

\* C37 (amended): a download of a media id whose download succeeded before
\* starts only once the id has left the ledger, which keeps the last 1000
\* ids, and, unless the duplicate check hit an I/O error, only when no file
\* of downloads/videos and no posted video record carries the id in its name
DownloadedAgainOnlyWhenForgotten ==
    [][
        (last'.op = "download" /\ InList(last'.pk, routine.downloaded)) =>
            /\ ~InList(Str(last'.pk), downloaded_content.video_ids)
            /\ (last'.fault = "ok" => ~NamedSomewhere(last'.pk))
    ]_vars

\* the reel was downloaded, its id was evicted by LedgerCap later ids, and
\* it was downloaded once more with the duplicate check working
ReelDownloadedAfterEviction ==
    /\ last.op = "download" /\ last.ret = "path" /\ last.again
    /\ last.fault = "ok"
    /\ Len(downloaded_content.video_ids) = LedgerCap
    /\ ~NeverDownloadedAgain
\* the video file and the sidecar download_instagram_video writes for a
\* media id, under any timestamp
ReelFilesOf(pk, fs) ==
    {f \in fs : \E t \in 0..MaxClock + 1 :
                    f \in {FinalName(pk, t), WithSuffix(FinalName(pk, t), JsonExt)}}

\* C38: whenever download_instagram_video returns no path, also when the
\* sidecar or the tracking failed after the validation, none of the video
\* files and sidecars it wrote for that media id remains; whenever it
\* returns a path, that video and its sidecar exist and the id is in the
\* ledger
FailedDownloadLeavesNothing ==
    [][
        (last'.op = "download") =>
            IF last'.ret = "None"
            THEN ReelFilesOf(last'.pk, files') \subseteq files
            ELSE /\ \E t \in 0..MaxClock + 1 :
                       /\ FinalName(last'.pk, t) \in files'
                       /\ WithSuffix(FinalName(last'.pk, t), JsonExt) \in files'
                 /\ InList(Str(last'.pk), downloaded_content'.video_ids)
    ]_vars
\* some upload call of the last post_content succeeded
UploadSucceeded ==
    \E i \in 1..Len(last.calls) :
        /\ last.calls[i].call \in {"clip_upload", "video_upload", "photo_upload"}
        /\ last.calls[i].ok

\* C39: in live mode post_content returns True if and only if an upload of
\* the file succeeded; no upload succeeds with post_content returning False
PostSucceedsIffUploaded ==
    (last.op = "post" /\ ~testing_mode) => (last.ret = "True" <=> UploadSucceeded)
\* the media id itself was tracked, downloaded or posted: it is in the
\* ledger, or a video, sidecar or thumbnail written for it is in
\* downloads/videos, or a posted video record names its video
KnownItself(pk) ==
    \/ InList(Str(pk), downloaded_content.video_ids)
    \/ ReelFilesOf(pk, files) # {}
    \/ \E t \in 0..MaxClock + 1 : WithSuffix(FinalName(pk, t), JpgExt) \in files
    \/ \E i \in 1..Len(posted_content.videos) :
           InDownloads(posted_content.videos[i].file)
               /\ ReelFilesOf(pk, {BaseName(posted_content.videos[i].file)}) # {}

\* C40: is_video_already_downloaded returns True only if the id itself was
\* tracked, downloaded or posted before; an id that is merely a substring of
\* another id or file name is reported as not downloaded and is not added
\* to the ledger
OnlyTheIdItselfCounts ==
    [][
        (last'.op = "isdup" /\ ~KnownItself(last'.pk)) =>
            /\ last'.ret = "False"
            /\ downloaded_content' = downloaded_content
    ]_vars
====
